---- MODULE Spec2Model ----
(***************************************************************************)
(* ai-repo-insights: the history manager (internal/history), the pipeline  *)
(* orchestrator that drives it (pipeline.RunPipeline) and the parts of the *)
(* fetcher, classifier, calculator and summary builder the pipeline runs   *)
(* through on its way to and from the history file.                        *)
(*                                                                         *)
(* Dates are "YYYY-MM-DD" strings in the program; their lexicographic      *)
(* order is the calendar order, so a date is modelled by its day number.   *)
(***************************************************************************)
EXTENDS Integers, Sequences, FiniteSets, TLC

VARIABLES
    disk,        \* data/history.json: the bytes of the history file, or its absence
    pc,          \* position of the RunPipeline invocation
    reportID,    \* RunPipeline's reportID argument
    runDate,     \* RunPipeline's runDate (step 4)
    classifiedRepos, \* RunPipeline's classifiedRepos (until step 3 has used them)
    topRepos,    \* RunPipeline's topRepos
    hist,        \* the *models.History held by the caller (RunPipeline's hist, or a call's result)
    err,         \* the error returned by the last history call ("" is nil)
    warnings,    \* what the run logged at warn level
    repeaters,   \* summaryJSON.Repeaters of the run
    result,      \* the models.PipelineResult of the last finished run
    reportFile,  \* reports/<reportID>.md written by the last run: the ID, or "" for none
    call,        \* the last direct call on the Manager (operation and arguments)
    streak,      \* observer: per key, the number of most recent consecutive saved runs whose top list held it
    dropped,     \* observer: per key, the streak it had when a saved run last dropped it
    lastRun,     \* observer: report ID and date of the last saved run
    monotone,    \* observer: no saved run so far passed an earlier date than the run before it
    given,       \* observer: the History a caller built by hand and gave to SaveHistory
    runs,        \* the runs of the program that are under way at the same time, and the file they started on
    llm          \* step 6 of a run: the position in the LLM call, its attempts so far and its output

vars == <<disk, pc, reportID, runDate, classifiedRepos, topRepos, hist, err, warnings, repeaters,
          result, reportFile, call, streak, dropped, lastRun, monotone, given, runs, llm>>

(***************************************************************************)
(* Bounds of the model.                                                    *)
(***************************************************************************)
MaxWeeks == 2     \* no streak counter is driven above this
MaxTopLen == 2    \* longest top list handed to UpdateHistory in a direct call
MaxFetched == 2   \* longest list of scraped repositories (before deduplication)
MaxRanked == 3    \* longest list handed to the ranking in a direct call
MaxPieces == 3    \* most pieces in a text handed to matchesKeyword in a direct call
MaxRepos == 2     \* longest list handed to Classify in a direct call
RetriesBound == 3 \* largest llm.max_retries of a configuration

Owners == {"o1", "o2"}
Names == {"r1"}
ReportIDs == {"w1", "w2"}
Dates == {1, 2}

\* models.RepoMetadata.Key / ClassifiedRepo.Key / ScoredRepo.Key
Key(r) == r.Owner \o "/" \o r.Name

Keys == {Key([Owner |-> o, Name |-> n]) : o \in Owners, n \in Names}

\* The keys in the byte order encoding/json writes a map's keys in.
SortedKeys == <<"o1/r1", "o2/r1">>

\* A Go map with no entries.
EmptyMap == [k \in {} |-> k]

\* A plausible slip: a swept repo is kept with its counter at zero.
MapDelete_Zeroes(m, ks) ==
    [k \in DOMAIN m |-> IF k \in ks THEN [m[k] EXCEPT !.WeeksInTop = 0] ELSE m[k]]

MapPut(m, k, v) == [x \in DOMAIN m \cup {k} |-> IF x = k THEN v ELSE m[x]]

MapDelete(m, ks) == [x \in DOMAIN m \ ks |-> m[x]]

(***************************************************************************)
(* models.History in memory.  nil: the *History pointer is nil.            *)
(* mapNil: the History field is a nil map (it then has no entries).        *)
(***************************************************************************)
NilHistory ==
    [nil |-> TRUE, LatestReport |-> "", mapNil |-> TRUE, History |-> EmptyMap]

\* models.NewHistory
NewHistory ==
    [nil |-> FALSE, LatestReport |-> "", mapNil |-> FALSE, History |-> EmptyMap]

\* The zero value of models.History, which json.Unmarshal fills in.
ZeroHistory ==
    [nil |-> FALSE, LatestReport |-> "", mapNil |-> TRUE, History |-> EmptyMap]

(***************************************************************************)
(* The history file.  kind "absent": no file; "garbage": bytes that are    *)
(* not JSON of a History; "null": the JSON text null; "object": a JSON     *)
(* object with latest_report and history, the latter null or an object     *)
(* whose members are kept in the order they are written in.                *)
(* readable: os.ReadFile succeeds.  writable: the file can be opened for   *)
(* writing; of an absent file, its directory can be created.               *)
(***************************************************************************)
File(kind, readable, writable) ==
    [kind |-> kind, latest_report |-> "", history_null |-> TRUE, history |-> <<>>,
     readable |-> readable, writable |-> writable]

AbsentFile == File("absent", TRUE, TRUE)

GarbageFile == File("garbage", TRUE, TRUE)

NullFile == File("null", TRUE, TRUE)

EmptyObjectFile == File("object", TRUE, TRUE)

\* What the file holds, whatever its permissions.
Contents(d) == [d EXCEPT !.readable = TRUE, !.writable = TRUE]

\* A Go string that is not valid UTF-8 (the bytes 'w', 0xFF), and what encoding/json
\* writes for it: every invalid byte becomes the replacement rune U+FFFD.
InvalidUTF8 == "w\\xFF"
Replaced == "w\\uFFFD"

\* encoding/json, a string value: coerced to valid UTF-8
EncodeString(str) == IF str = InvalidUTF8 THEN Replaced ELSE str

\* A plausible slip: the first-seen report is written from the last-seen one.
EncodeEntry_LastForFirst(e) ==
    [e EXCEPT !.LastSeenReport = EncodeString(e.LastSeenReport),
              !.FirstSeenReport = EncodeString(e.LastSeenReport)]

\* encoding/json, a models.RepoHistory: its two report strings are string values
\* (a date is a day number in this model)
EncodeEntry(e) ==
    [e EXCEPT !.LastSeenReport = EncodeString(e.LastSeenReport),
              !.FirstSeenReport = EncodeString(e.FirstSeenReport)]

\* The members of a map, as encoding/json writes them: sorted by key.
RECURSIVE MarshalMap(_, _)
MarshalMap(m, i) ==
    IF i > Len(SortedKeys) THEN <<>>
    ELSE (IF SortedKeys[i] \in DOMAIN m
             THEN << <<SortedKeys[i], EncodeEntry(m[SortedKeys[i]])>> >>
             ELSE <<>>) \o MarshalMap(m, i + 1)

\* json.MarshalIndent(history, "", "  ") of a *models.History
Marshal(h) ==
    IF h.nil THEN NullFile
    ELSE [kind |-> "object",
          latest_report |-> EncodeString(h.LatestReport),
          history_null |-> h.mapNil,
          history |-> IF h.mapNil THEN <<>> ELSE MarshalMap(h.History, 1),
          readable |-> TRUE,
          writable |-> TRUE]

\* The members of a JSON object read into a Go map: a later member replaces an earlier one.
RECURSIVE UnmarshalMap(_, _)
UnmarshalMap(members, m) ==
    IF members = <<>> THEN m
    ELSE UnmarshalMap(Tail(members), MapPut(m, Head(members)[1], Head(members)[2]))

\* json.Unmarshal(data, &history) into a zero models.History
Unmarshal(data) ==
    CASE data.kind = "garbage" -> [ok |-> FALSE, history |-> ZeroHistory]
      [] data.kind = "null" -> [ok |-> TRUE, history |-> ZeroHistory]
      [] OTHER ->
           [ok |-> TRUE,
            history |->
                [nil |-> FALSE,
                 LatestReport |-> data.latest_report,
                 mapNil |-> data.history_null,
                 History |-> IF data.history_null THEN EmptyMap
                             ELSE UnmarshalMap(data.history, EmptyMap)]]

ErrRead == "failed to read history file"
ErrParse == "failed to parse history file"
ErrMkdir == "failed to create history directory"
ErrWrite == "failed to write history file"

\* A plausible slip: a file that cannot be read or parsed is taken for a fresh history.
LoadHistory_Swallows(d) ==
    IF d.kind = "absent" \/ ~d.readable \/ ~Unmarshal(d).ok
       THEN [hist |-> NewHistory, err |-> "", disk |-> d]
       ELSE [hist |-> [Unmarshal(d).history EXCEPT !.mapNil = FALSE], err |-> "", disk |-> d]

\* A plausible slip: a missing file is created on load.
LoadHistory_Creates(d) ==
    IF d.kind = "absent"
       THEN [hist |-> NewHistory, err |-> "",
             disk |-> IF d.writable THEN Marshal(NewHistory) ELSE d]
    ELSE IF ~d.readable THEN [hist |-> NilHistory, err |-> ErrRead, disk |-> d]
    ELSE IF ~Unmarshal(d).ok THEN [hist |-> NilHistory, err |-> ErrParse, disk |-> d]
    ELSE [hist |-> [Unmarshal(d).history EXCEPT !.mapNil = FALSE], err |-> "", disk |-> d]

\* Manager.LoadHistory: the history and error returned, and the file afterwards
\* (os.Stat and os.ReadFile leave it alone).
LoadHistory(d) ==
    IF d.kind = "absent" THEN [hist |-> NewHistory, err |-> "", disk |-> d]
    ELSE IF ~d.readable THEN [hist |-> NilHistory, err |-> ErrRead, disk |-> d]
    ELSE LET u == Unmarshal(d)
         IN  IF ~u.ok THEN [hist |-> NilHistory, err |-> ErrParse, disk |-> d]
             ELSE [hist |-> IF u.history.mapNil
                               THEN [u.history EXCEPT !.mapNil = FALSE]
                               ELSE u.history,
                   err |-> "",
                   disk |-> d]

\* UpdateHistory, the set of current top repo keys
CurrentRepoKeys(currentTop) == {Key(currentTop[i]) : i \in DOMAIN currentTop}

\* A plausible slip: the first-seen fields are refreshed along with the last-seen ones.
IncrementExisting_ResetsFirstSeen(existingHistory, rid, date) ==
    [existingHistory EXCEPT !.WeeksInTop = @ + 1,
                            !.LastSeenReport = rid,
                            !.LastSeenDate = date,
                            !.FirstSeenReport = rid,
                            !.FirstSeenDate = date]

\* A plausible slip: the date is stored in the wrong field.
IncrementExisting_StampsFirstSeen(existingHistory, rid, date) ==
    [existingHistory EXCEPT !.WeeksInTop = @ + 1,
                            !.LastSeenReport = rid,
                            !.FirstSeenDate = date]

\* UpdateHistory, a repo that was in history: increment the counter
IncrementExisting(existingHistory, rid, date) ==
    [existingHistory EXCEPT !.WeeksInTop = @ + 1,
                            !.LastSeenReport = rid,
                            !.LastSeenDate = date]

\* A plausible slip: a new repo starts its count at zero.
InitialEntry_ZeroWeeks(rid, date) ==
    [WeeksInTop |-> 0,
     LastSeenReport |-> rid,
     LastSeenDate |-> date,
     FirstSeenReport |-> rid,
     FirstSeenDate |-> date]

\* UpdateHistory, a new repo: initialize
InitialEntry(rid, date) ==
    [WeeksInTop |-> 1,
     LastSeenReport |-> rid,
     LastSeenDate |-> date,
     FirstSeenReport |-> rid,
     FirstSeenDate |-> date]

\* UpdateHistory, the loop over currentTop
RECURSIVE UpdateTop(_, _, _, _)
UpdateTop(m, currentTop, rid, date) ==
    IF currentTop = <<>> THEN m
    ELSE LET repoKey == Key(Head(currentTop))
         IN  UpdateTop(
                 IF repoKey \in DOMAIN m
                    THEN MapPut(m, repoKey, IncrementExisting(m[repoKey], rid, date))
                    ELSE MapPut(m, repoKey, InitialEntry(rid, date)),
                 Tail(currentTop), rid, date)

\* A plausible slip: nothing is swept.
ReposToRemove_None(m, currentRepoKeys) == {}

\* UpdateHistory, the repos not in the current top (streak broken)
ReposToRemove(m, currentRepoKeys) == {k \in DOMAIN m : k \notin currentRepoKeys}

\* A plausible slip: a report ID the file already holds as latest_report is not
\* counted again.
UpdateHistory_OncePerReport(d, currentTop, rid, date) ==
    LET loaded == LoadHistory(d)
    IN  IF loaded.err # ""
           THEN [hist |-> NilHistory, err |-> loaded.err, disk |-> loaded.disk]
        ELSE IF d.kind = "object" /\ loaded.hist.LatestReport = rid
           THEN [hist |-> loaded.hist, err |-> "", disk |-> loaded.disk]
        ELSE LET updated == UpdateTop(loaded.hist.History, currentTop, rid, date)
                 kept == MapDelete(updated,
                                   ReposToRemove(updated, CurrentRepoKeys(currentTop)))
             IN  [hist |-> [loaded.hist EXCEPT !.History = kept, !.LatestReport = rid],
                  err |-> "",
                  disk |-> loaded.disk]

\* A plausible slip: UpdateHistory persists what it returns.
UpdateHistory_Saves(d, currentTop, rid, date) ==
    LET loaded == LoadHistory(d)
    IN  IF loaded.err # ""
           THEN [hist |-> NilHistory, err |-> loaded.err, disk |-> loaded.disk]
        ELSE LET updated == UpdateTop(loaded.hist.History, currentTop, rid, date)
                 kept == MapDelete(updated,
                                   ReposToRemove(updated, CurrentRepoKeys(currentTop)))
                 new == [loaded.hist EXCEPT !.History = kept, !.LatestReport = rid]
             IN  [hist |-> new,
                  err |-> "",
                  disk |-> IF d.writable
                           THEN [Marshal(new) EXCEPT
                                    !.readable = (d.kind = "absent") \/ d.readable]
                           ELSE loaded.disk]

\* Manager.UpdateHistory: the history and error returned, and the file afterwards
UpdateHistory(d, currentTop, rid, date) ==
    LET loaded == LoadHistory(d)
    IN  IF loaded.err # ""
           THEN [hist |-> NilHistory, err |-> loaded.err, disk |-> loaded.disk]
        ELSE LET updated == UpdateTop(loaded.hist.History, currentTop, rid, date)
                 kept == MapDelete(updated,
                                   ReposToRemove(updated, CurrentRepoKeys(currentTop)))
             IN  [hist |-> [loaded.hist EXCEPT !.History = kept, !.LatestReport = rid],
                  err |-> "",
                  disk |-> loaded.disk]

\* A plausible slip: the history is encoded but the file is left as it was.
SaveHistory_NoWrite(d, h) ==
    IF d.kind = "absent" /\ ~d.writable THEN [disk |-> d, err |-> ErrMkdir, panics |-> FALSE]
    ELSE IF ~d.writable THEN [disk |-> d, err |-> ErrWrite, panics |-> FALSE]
    ELSE [disk |-> d, err |-> "", panics |-> h.nil]

\* Manager.SaveHistory.  os.WriteFile keeps the permissions of a file that exists.
\* panics: after the write the log line reads len(history.History), a nil pointer
\* dereference when history is nil.
SaveHistory(d, h) ==
    IF d.kind = "absent" /\ ~d.writable THEN [disk |-> d, err |-> ErrMkdir, panics |-> FALSE]
    ELSE IF ~d.writable THEN [disk |-> d, err |-> ErrWrite, panics |-> FALSE]
    ELSE [disk |-> [Marshal(h) EXCEPT !.readable = (d.kind = "absent") \/ d.readable],
          err |-> "", panics |-> h.nil]

(***************************************************************************)
(* The state before any call or run.                                       *)
(***************************************************************************)
NoCall == [op |-> "none", top |-> <<>>, rid |-> "", date |-> 0]

\* One run of the program at a time: none are under way side by side.
NoRuns == [start |-> AbsentFile, run |-> <<>>]

\* Step 6 is not under way.
NoLLM == [pc |-> "none"]

NoResult == [Success |-> FALSE, ReportID |-> "", Error |-> "", returned |-> FALSE]

InitButHist ==
    /\ pc = "idle"
    /\ reportID = ""
    /\ runDate = 0
    /\ classifiedRepos = <<>>
    /\ topRepos = <<>>
    /\ err = ""
    /\ warnings = {}
    /\ repeaters = <<>>
    /\ result = NoResult
    /\ reportFile = ""
    /\ call = NoCall
    /\ streak = [k \in Keys |-> 0]
    /\ dropped = [k \in Keys |-> 0]
    /\ lastRun = [rid |-> "", date |-> 0]
    /\ monotone = TRUE
    /\ given = NilHistory
    /\ runs = NoRuns
    /\ llm = NoLLM

InitLocals == hist = NilHistory /\ InitButHist

pipelineVars ==
    <<pc, reportID, runDate, classifiedRepos, topRepos, warnings, repeaters, result,
      reportFile>>

observerVars == <<streak, dropped, lastRun, monotone, given, runs, llm>>

(***************************************************************************)
(* Direct calls on a Manager, as the package's tests make them.            *)
(***************************************************************************)
\* A models.ScoredRepo with only its owner and name set (history_test.go).
BareRepo(o, n) == [Owner |-> o, Name |-> n, Heat7 |-> 0, Heat30 |-> 0, Score |-> 0]

BareRepos == {BareRepo(o, n) : o \in Owners, n \in Names}

\* The top lists of the direct calls: any sequence, a key may repeat.
TopLists == UNION {[1..n -> BareRepos] : n \in 0..MaxTopLen}

WeeksWithin(h, bound) == \A k \in DOMAIN h.History : h.History[k].WeeksInTop <= bound

\* manager.LoadHistory()
CallLoadHistory ==
    LET r == LoadHistory(disk)
    IN  /\ pc = "idle"
        /\ err = ""
        /\ call.op \notin {"LoadHistory", "UpdateHistory"}
        /\ call' = [op |-> "LoadHistory", top |-> <<>>, rid |-> "", date |-> 0]
        /\ hist' = r.hist
        /\ err' = r.err
        /\ disk' = r.disk
        /\ UNCHANGED <<pipelineVars, observerVars>>

\* manager.UpdateHistory(currentTop, reportID, reportDate)
CallUpdateHistory ==
    \E top \in TopLists, rid \in ReportIDs, date \in Dates :
        LET r == UpdateHistory(disk, top, rid, date)
        IN  /\ pc = "idle"
            /\ err = ""
            /\ call.op # "UpdateHistory"
            /\ WeeksWithin(r.hist, MaxWeeks)
            /\ call' = [op |-> "UpdateHistory", top |-> top, rid |-> rid, date |-> date]
            /\ hist' = r.hist
            /\ err' = r.err
            /\ disk' = r.disk
            /\ UNCHANGED <<pipelineVars, observerVars>>

\* manager.SaveHistory(history) with the history the caller got without an error
CallSaveHistory ==
    LET r == SaveHistory(disk, hist)
    IN  /\ pc = "idle"
        /\ err = ""
        /\ call.op \in {"LoadHistory", "UpdateHistory"}
        /\ call' = [op |-> "SaveHistory", top |-> <<>>, rid |-> "", date |-> 0]
        /\ disk' = r.disk
        /\ err' = r.err
        /\ UNCHANGED <<hist, pipelineVars, observerVars>>

\* A test's setup: a fresh Manager over a file written by hand (os.WriteFile, os.Chmod), or over
\* none.  A test that got an error, or saved, is over.
HandFiles ==
    {File(k, r, w) : k \in {"garbage", "null", "object"}, r, w \in BOOLEAN}
        \cup {File("absent", TRUE, w) : w \in BOOLEAN}

WriteFileByHand ==
    /\ <<call.op, err>> # <<"UpdateHistory", "">>
    /\ disk' \in HandFiles \ {disk}
    /\ call' = NoCall
    /\ hist' = NilHistory
    /\ err' = ""
    /\ UNCHANGED <<pipelineVars, observerVars>>

InitAPI == disk = AbsentFile /\ InitLocals

NextAPI == CallLoadHistory \/ CallUpdateHistory \/ CallSaveHistory \/ WriteFileByHand

SpecAPI == InitAPI /\ [][NextAPI]_vars

(***************************************************************************)
(* A crash in SaveHistory.  os.WriteFile opens the file with O_TRUNC,      *)
(* writes the bytes and closes it; a process that dies in between leaves   *)
(* the file empty or holding a prefix of the new bytes, neither of which   *)
(* is JSON of a History.                                                   *)
(***************************************************************************)
\* os.WriteFile, the open: the file exists and is empty (or, while the write goes on,
\* holds a prefix of the data)
OpenTruncate(d) == File("garbage", (d.kind = "absent") \/ d.readable, d.writable)

\* SaveHistory up to the open inside os.WriteFile
BeginSave ==
    /\ pc = "idle"
    /\ err = ""
    /\ call.op \in {"LoadHistory", "UpdateHistory"}
    /\ disk.writable
    /\ pc' = "writing"
    /\ call' = [op |-> "SaveHistory", top |-> <<>>, rid |-> "", date |-> 0]
    /\ disk' = OpenTruncate(disk)
    /\ UNCHANGED <<reportID, runDate, topRepos, classifiedRepos, hist, err, warnings, repeaters, result,
                   reportFile, observerVars>>

\* SaveHistory from the write to its return
FinishSave ==
    LET r == SaveHistory(disk, hist)
    IN  /\ pc = "writing"
        /\ pc' = "idle"
        /\ disk' = r.disk
        /\ err' = r.err
        /\ UNCHANGED <<reportID, runDate, topRepos, classifiedRepos, hist, warnings, repeaters, result,
                       reportFile, call, observerVars>>

\* The process dies (power loss, kill) and a new one starts with nothing in memory.
Crash ==
    /\ call # NoCall
    /\ pc' = "idle"
    /\ call' = NoCall
    /\ hist' = NilHistory
    /\ err' = ""
    /\ UNCHANGED <<disk, reportID, runDate, topRepos, classifiedRepos, warnings, repeaters, result,
                   reportFile, observerVars>>

NextCrash == CallLoadHistory \/ CallUpdateHistory \/ BeginSave \/ FinishSave \/ Crash

SpecCrash == InitAPI /\ [][NextCrash]_vars

(***************************************************************************)
(* The round trip, as TestSaveHistory_PreservesAllMetadata makes it: a     *)
(* History built by hand is saved into an empty directory and loaded back. *)
(***************************************************************************)
\* The strings a hand-built History carries.
GivenStrings == {"", "w1", InvalidUTF8}

\* The entries a hand-built History carries: any counter, any strings.
GivenEntries ==
    [WeeksInTop : 0..MaxWeeks,
     LastSeenReport : GivenStrings,
     LastSeenDate : Dates,
     FirstSeenReport : GivenStrings,
     FirstSeenDate : {1}]

\* The hand-built histories: a nil map, an empty map, or entries for some keys.
GivenHistories ==
    {[nil |-> FALSE, LatestReport |-> l, mapNil |-> n, History |-> m] :
        l \in GivenStrings \ {""}, n \in {FALSE},
        m \in UNION {[ks -> GivenEntries] : ks \in SUBSET Keys}}
    \cup {[ZeroHistory EXCEPT !.LatestReport = l] : l \in GivenStrings}

\* manager.SaveHistory(history) of the hand-built History
SaveGiven ==
    LET r == SaveHistory(disk, hist)
    IN  /\ call = NoCall
        /\ ~hist.nil
        /\ call' = [op |-> "SaveHistory", top |-> <<>>, rid |-> "", date |-> 0]
        /\ given' = hist
        /\ disk' = r.disk
        /\ err' = r.err
        /\ UNCHANGED <<hist, pipelineVars, streak, dropped, lastRun, monotone, runs, llm>>

\* manager.LoadHistory() after the save
LoadSaved ==
    LET r == LoadHistory(disk)
    IN  /\ call.op = "SaveHistory"
        /\ err = ""
        /\ call' = [op |-> "LoadHistory", top |-> <<>>, rid |-> "", date |-> 0]
        /\ hist' = r.hist
        /\ err' = r.err
        /\ disk' = r.disk
        /\ UNCHANGED <<pipelineVars, observerVars>>

InitRoundTrip == disk = AbsentFile /\ hist \in GivenHistories /\ InitButHist

NextRoundTrip == SaveGiven \/ LoadSaved

SpecRoundTrip == InitRoundTrip /\ [][NextRoundTrip]_vars

\* The file holds a history that can be read, and its entries.
PersistedOK(d) == d.kind \in {"null", "object"} /\ d.readable

Persisted(d) == Unmarshal(d).history.History

\* Bound of the model: no key of ks that the file tracks has reached the bound.
PersistedWeeksBelow(d, ks, bound) ==
    PersistedOK(d) =>
        \A k \in ks \cap DOMAIN Persisted(d) : Persisted(d)[k].WeeksInTop < bound

(***************************************************************************)
(* The classifier.  A Go string is the sequence of its characters; the     *)
(* strings of the model are written as strings and Chars gives their       *)
(* characters.  Only ASCII occurs.                                         *)
(***************************************************************************)
Chars(str) ==
    CASE str = "" -> <<>>
      [] str = "r1" -> <<"r", "1">>
      [] str = "ai" -> <<"a", "i">>
      [] str = "AI" -> <<"A", "I">>
      [] str = "llm" -> <<"l", "l", "m">>
      [] str = "gpt" -> <<"g", "p", "t">>
      [] str = "tutorial" -> <<"t", "u", "t", "o", "r", "i", "a", "l">>
      [] str = "agent" -> <<"a", "g", "e", "n", "t">>
      [] str = "autonomous" -> <<"a", "u", "t", "o", "n", "o", "m", "o", "u", "s">>
      [] str = "ai-agent" -> <<"a", "i", "-", "a", "g", "e", "n", "t">>
      [] str = "s" -> <<"s">>
      [] str = "-" -> <<"-">>
      [] str = " " -> <<" ">>
      [] str = "." -> <<".">>
      [] str = "web" -> <<"w", "e", "b">>
      [] str = "rag" -> <<"r", "a", "g">>
      [] str = "ai-tutorial" -> <<"a", "i", "-", "t", "u", "t", "o", "r", "i", "a", "l">>
      [] str = "ai-project" -> <<"a", "i", "-", "p", "r", "o", "j", "e", "c", "t">>
      [] str = "llm-project" -> <<"l", "l", "m", "-", "p", "r", "o", "j", "e", "c", "t">>
      [] str = "web-app" -> <<"w", "e", "b", "-", "a", "p", "p">>
      [] str = "An AI tutorial." -> <<"A", "n", " ", "A", "I", " ", "t", "u", "t", "o", "r", "i", "a", "l", ".">>
      [] str = "agent llm" -> <<"a", "g", "e", "n", "t", " ", "l", "l", "m">>
      [] str = "llm gpt agent" -> <<"l", "l", "m", " ", "g", "p", "t", " ", "a", "g", "e", "n", "t">>

\* strings.ToLower, one character
ToLowerChar(ch) ==
    CASE ch = "A" -> "a"
      [] ch = "I" -> "i"
      [] OTHER -> ch

\* strings.ToLower
ToLower(s) == [i \in DOMAIN s |-> ToLowerChar(s[i])]

\* strings.Contains
Contains(s, substr) ==
    \E i \in 0..(Len(s) - Len(substr)) : SubSeq(s, i + 1, i + Len(substr)) = substr

\* strings.HasPrefix
HasPrefix(s, prefix) == Len(s) >= Len(prefix) /\ SubSeq(s, 1, Len(prefix)) = prefix

\* unicode.IsSpace, on the characters that occur
IsSpace(ch) == ch \in {" ", "\t", "\n"}

\* strings.Fields: the maximal runs of characters that are not white space.  word is
\* the run being read.
RECURSIVE FieldsFrom(_, _)
FieldsFrom(s, word) ==
    IF s = <<>> THEN (IF word = <<>> THEN <<>> ELSE <<word>>)
    ELSE IF IsSpace(Head(s))
         THEN (IF word = <<>> THEN <<>> ELSE <<word>>) \o FieldsFrom(Tail(s), <<>>)
         ELSE FieldsFrom(Tail(s), Append(word, Head(s)))

Fields(s) == FieldsFrom(s, <<>>)

\* strings.TrimLeft, strings.TrimRight and strings.Trim
RECURSIVE TrimLeft(_, _)
TrimLeft(s, cutset) ==
    IF s # <<>> /\ Head(s) \in cutset THEN TrimLeft(Tail(s), cutset) ELSE s

RECURSIVE TrimRight(_, _)
TrimRight(s, cutset) ==
    IF s # <<>> /\ s[Len(s)] \in cutset
    THEN TrimRight(SubSeq(s, 1, Len(s) - 1), cutset)
    ELSE s

Trim(s, cutset) == TrimRight(TrimLeft(s, cutset), cutset)

\* strings.Join
RECURSIVE Join(_, _)
Join(elems, sep) ==
    IF elems = <<>> THEN <<>>
    ELSE IF Len(elems) = 1 THEN Head(elems)
    ELSE Head(elems) \o sep \o Join(Tail(elems), sep)

\* matchesKeyword: the cutset of strings.Trim(word, ".,;:!?()[]{}\"'")
Punctuation == {".", ",", ";", ":", "!", "?", "(", ")", "[", "]", "{", "}", "\"", "'"}

\* A plausible slip: the stem match is tried for every keyword, however short.
matchesKeyword_AnyStem(text, keyword) ==
    LET kw == ToLower(keyword)
        lower == ToLower(text)
        words == Fields(lower)
    IN  IF Contains(kw, <<"-">>) THEN Contains(lower, kw)
        ELSE \E i \in DOMAIN words :
                LET word == Trim(words[i], Punctuation)
                IN  word = kw \/ word = kw \o <<"s">> \/ HasPrefix(word, kw)

\* Classifier.matchesKeyword, on the characters of text and keyword
matchesKeyword(text, keyword) ==
    LET kw == ToLower(keyword)
        lower == ToLower(text)
        words == Fields(lower)
    IN  IF Contains(kw, <<"-">>) THEN Contains(lower, kw)
        ELSE \E i \in DOMAIN words :
                LET word == Trim(words[i], Punctuation)
                IN  \/ word = kw
                    \/ word = kw \o <<"s">>
                    \/ Len(kw) >= 4 /\ HasPrefix(word, kw)

\* Classifier.buildSearchText
buildSearchText(repo) ==
    ToLower(Join(<<Chars(repo.Name), Chars(repo.Description)>>
                 \o [i \in DOMAIN repo.Topics |-> Chars(repo.Topics[i])], <<" ">>))

\* Classifier.matchesInclude
matchesInclude(repo, keywords) ==
    \E i \in DOMAIN keywords.Include :
        matchesKeyword(buildSearchText(repo), Chars(keywords.Include[i]))

\* A plausible slip: the exclude keywords are not looked at.
matchesExclude_Never(repo, keywords) == FALSE

\* Classifier.matchesExclude
matchesExclude(repo, keywords) ==
    \E i \in DOMAIN keywords.Exclude :
        matchesKeyword(buildSearchText(repo), Chars(keywords.Exclude[i]))

\* The orders in which a range over a map with these keys can visit them: Go leaves
\* the order unspecified and varies it from one range to the next.
RangeOrders(keys) ==
    {order \in [1..Cardinality(keys) -> keys] :
        \A i, j \in DOMAIN order : i # j => order[i] # order[j]}

\* Classifier.assignCategories.  order: the order in which this range over
\* keywords.Categories visits the category names.
assignCategories(repo, keywords, order) ==
    SelectSeq(order, LAMBDA categoryName :
        \E i \in DOMAIN keywords.Categories[categoryName] :
            matchesKeyword(buildSearchText(repo),
                           Chars(keywords.Categories[categoryName][i])))

\* selectPrimaryCategory, the inner loop: the keywords of a category that match
MatchesOf(repo, keywords, categoryName) ==
    Cardinality({i \in DOMAIN keywords.Categories[categoryName] :
        matchesKeyword(buildSearchText(repo),
                       Chars(keywords.Categories[categoryName][i]))})

\* selectPrimaryCategory, the outer loop over the categories still to visit
RECURSIVE PrimaryFrom(_, _, _, _, _)
PrimaryFrom(repo, keywords, categories, maxMatches, primaryCategory) ==
    IF categories = <<>> THEN primaryCategory
    ELSE IF MatchesOf(repo, keywords, Head(categories)) > maxMatches
         THEN PrimaryFrom(repo, keywords, Tail(categories),
                          MatchesOf(repo, keywords, Head(categories)), Head(categories))
         ELSE PrimaryFrom(repo, keywords, Tail(categories), maxMatches, primaryCategory)

\* Classifier.selectPrimaryCategory
selectPrimaryCategory(repo, keywords, categories) ==
    IF Len(categories) = 0 THEN ""
    ELSE PrimaryFrom(repo, keywords, categories, 0, categories[1])

RECURSIVE SumOver(_, _)
SumOver(f, keys) ==
    IF keys = {} THEN 0
    ELSE LET k == CHOOSE x \in keys : TRUE IN f[k] + SumOver(f, keys \ {k})

\* A plausible slip: a keyword that is in several lists is counted once.
calculateMatchScore_Distinct(repo, keywords) ==
    Cardinality(
        {keywords.Include[i] : i \in {j \in DOMAIN keywords.Include :
            matchesKeyword(buildSearchText(repo), Chars(keywords.Include[j]))}}
        \cup UNION {{keywords.Categories[categoryName][i] :
                        i \in {j \in DOMAIN keywords.Categories[categoryName] :
                            matchesKeyword(buildSearchText(repo),
                                           Chars(keywords.Categories[categoryName][j]))}} :
                    categoryName \in DOMAIN keywords.Categories})

\* Classifier.calculateMatchScore
calculateMatchScore(repo, keywords) ==
    Cardinality({i \in DOMAIN keywords.Include :
        matchesKeyword(buildSearchText(repo), Chars(keywords.Include[i]))})
    + SumOver([categoryName \in DOMAIN keywords.Categories |->
                  MatchesOf(repo, keywords, categoryName)],
              DOMAIN keywords.Categories)

\* Classifier.Classify.  orders: for each repo, the order of its range over the
\* categories.
RECURSIVE Classify(_, _, _)
Classify(repos, keywords, orders) ==
    IF repos = <<>> THEN <<>>
    ELSE LET repo == Head(repos)
             categories == assignCategories(repo, keywords, Head(orders))
         IN  (IF matchesInclude(repo, keywords) /\ ~matchesExclude(repo, keywords)
              THEN <<[Metadata |-> repo,
                      Categories |-> categories,
                      PrimaryCategory |-> selectPrimaryCategory(repo, keywords, categories),
                      MatchScore |-> calculateMatchScore(repo, keywords)]>>
              ELSE <<>>)
             \o Classify(Tail(repos), keywords, Tail(orders))

(***************************************************************************)
(* The pipeline: Orchestrator.RunPipeline, one invocation of the program   *)
(* at a time.  Steps 1 to 3 (fetch, classify, score and rank) do not touch *)
(* the history file and are one step; step 4 is three steps, one per call  *)
(* on the history manager; step 5 is the summary; steps 6 to 8 and the     *)
(* return are the last step.                                               *)
(***************************************************************************)
\* config.Settings.TopN of the run's configuration (Validate: greater than 0)
TopN == 2

\* The star counters a scraped repository carries.
MonthStars == {30}

\* The keyword configuration of the run (config/keywords.json).
Keywords ==
    [Include |-> <<"ai">>, Exclude |-> <<"tutorial">>,
     Categories |-> [categoryName \in {"llm"} |-> <<"llm", "gpt">>]]

\* A models.RepoMetadata as mergeRepos builds it.  passes: its description matches
\* an include keyword and no exclude keyword.
Scraped(o, n, month, passes) ==
    [Owner |-> o, Name |-> n, Description |-> IF passes THEN "ai" ELSE "web",
     Topics |-> <<>>, StarsToday |-> 0, StarsThisWeek |-> 0, StarsThisMonth |-> month]

\* Classify with the run's keywords over each repository a scrape can give, worked
\* out once (the loop of Classify treats every repo on its own; the one category has
\* one range order).
ClassifyTable ==
    {<<repo, Classify(<<repo>>, Keywords, <<order>>)>> :
        repo \in {Scraped(o, n, month, passes) :
                     o \in Owners, n \in Names, month \in MonthStars, passes \in BOOLEAN},
        order \in RangeOrders(DOMAIN Keywords.Categories)}

\* Classifier.Classify with the run's keywords, over the repos of a scrape
RECURSIVE ClassifyEach(_)
ClassifyEach(repos) ==
    IF repos = <<>> THEN <<>>
    ELSE (CHOOSE entry \in ClassifyTable : entry[1] = Head(repos))[2]
         \o ClassifyEach(Tail(repos))

\* A plausible slip: a repo trending under two languages is kept twice.
deduplicateRepos_KeepsAll(repos, seen) == repos

\* TrendingFetcher.deduplicateRepos: the first occurrence of each key, in order
RECURSIVE deduplicateRepos(_, _)
deduplicateRepos(repos, seen) ==
    IF repos = <<>> THEN <<>>
    ELSE IF Key(Head(repos)) \in seen THEN deduplicateRepos(Tail(repos), seen)
    ELSE <<Head(repos)>> \o deduplicateRepos(Tail(repos), seen \cup {Key(Head(repos))})


(***************************************************************************)
(* float64 arithmetic, as CalculateScores uses it.  TLC's integers are 32  *)
(* bits wide, so a natural number of any size is a sequence of limbs, least *)
(* significant first, and a float64 is a record [m, e] standing for        *)
(* m * 2^e with m such a natural number of at most 53 bits.  Every         *)
(* operation is the exact one followed by IEEE-754 rounding to nearest,    *)
(* ties to even.  (Only finite, non-negative, normal values occur.)        *)
(***************************************************************************)
LimbBits == 6 + 6
Base == 2 ^ LimbBits

RECURSIVE BigOf(_)
BigOf(n) == IF n = 0 THEN <<>> ELSE <<n % Base>> \o BigOf(n \div Base)

RECURSIVE BigToInt(_)
BigToInt(a) == IF a = <<>> THEN 0 ELSE Head(a) + Base * BigToInt(Tail(a))

RECURSIVE BigAdd(_, _, _)
BigAdd(a, b, carry) ==
    IF a = <<>> /\ b = <<>> THEN (IF carry = 0 THEN <<>> ELSE <<carry>>)
    ELSE LET x == IF a = <<>> THEN 0 ELSE Head(a)
             y == IF b = <<>> THEN 0 ELSE Head(b)
             sum == x + y + carry
         IN  <<sum % Base>> \o BigAdd(IF a = <<>> THEN a ELSE Tail(a),
                                      IF b = <<>> THEN b ELSE Tail(b),
                                      sum \div Base)

RECURSIVE BigMulSmall(_, _, _)
BigMulSmall(a, k, carry) ==
    IF a = <<>> THEN BigOf(carry)
    ELSE LET p == Head(a) * k + carry
         IN  <<p % Base>> \o BigMulSmall(Tail(a), k, p \div Base)

RECURSIVE BigMul(_, _)
BigMul(a, b) ==
    IF b = <<>> THEN <<>>
    ELSE BigAdd(BigMulSmall(a, Head(b), 0), <<0>> \o BigMul(a, Tail(b)), 0)

\* Quotient and remainder of a by a small k, from the most significant limb down.
RECURSIVE BigDivSmall(_, _)
BigDivSmall(a, k) ==
    IF a = <<>> THEN [q |-> <<>>, r |-> 0]
    ELSE LET hi == BigDivSmall(Tail(a), k)
             cur == hi.r * Base + Head(a)
         IN  [q |-> <<cur \div k>> \o hi.q, r |-> cur % k]

RECURSIVE BigTrim(_)
BigTrim(a) ==
    IF a = <<>> THEN a
    ELSE IF a[Len(a)] = 0 THEN BigTrim(SubSeq(a, 1, Len(a) - 1)) ELSE a

RECURSIVE SmallBitLen(_)
SmallBitLen(n) == IF n = 0 THEN 0 ELSE 1 + SmallBitLen(n \div 2)

BitLen(a) ==
    LET t == BigTrim(a)
    IN  IF t = <<>> THEN 0 ELSE (Len(t) - 1) * LimbBits + SmallBitLen(t[Len(t)])

Bit(a, i) ==
    IF i \div LimbBits + 1 > Len(a) THEN 0
    ELSE (a[i \div LimbBits + 1] \div (2 ^ (i % LimbBits))) % 2

ShiftLeft(a, s) ==
    [i \in 1..(s \div LimbBits) |-> 0] \o BigMulSmall(a, 2 ^ (s % LimbBits), 0)

ShiftRight(a, s) ==
    LET limbs == s \div LimbBits
    IN  IF limbs >= Len(a) THEN <<>>
        ELSE BigDivSmall(SubSeq(a, limbs + 1, Len(a)), 2 ^ (s % LimbBits)).q

\* Rounding of the exact value m * 2^e (plus something below its last bit when sticky)
\* to a float64: nearest, ties to even.
RoundToFloat64(m, e, sticky) ==
    LET len == BitLen(m)
        s == len - 53
        q == ShiftRight(m, s)
        below == sticky \/ \E i \in 0..(s - 2) : Bit(m, i) = 1
        up == Bit(m, s - 1) = 1 /\ (below \/ Bit(q, 0) = 1)
    IN  IF len <= 53 THEN [m |-> m, e |-> e]
        ELSE [m |-> IF up THEN BigAdd(q, <<1>>, 0) ELSE q, e |-> e + s]

\* float64(n) of a small non-negative int
Float64(n) == [m |-> BigOf(n), e |-> 0]

\* The exact product and the exact sum of two values
ExactMul(x, y) == [m |-> BigMul(x.m, y.m), e |-> x.e + y.e]

ExactAdd(x, y) ==
    LET e == IF x.e < y.e THEN x.e ELSE y.e
    IN  [m |-> BigAdd(ShiftLeft(x.m, x.e - e), ShiftLeft(y.m, y.e - e), 0), e |-> e]

Rounded(x) == RoundToFloat64(x.m, x.e, FALSE)

\* float64(p) / float64(q) for small non-negative ints, q > 0; also the float64 of the
\* decimal literal p/q
Float64Div(p, q) ==
    LET d == BigDivSmall(ShiftLeft(BigOf(p), 72), q)
    IN  RoundToFloat64(d.q, 0 - 72, d.r # 0)

\* int(x) of a non-negative float64 that fits: truncation
TruncToInt(x) ==
    IF x.e >= 0 THEN BigToInt(ShiftLeft(x.m, x.e))
    ELSE BigToInt(ShiftRight(x.m, 0 - x.e))

\* What a build may fuse (the Go specification lets an implementation fuse x*y + z
\* into one operation with one rounding): inner, the product fused into the first
\* addition ("none", "first", "second"); outer, whether the last product is fused
\* into the second addition.
Builds == [inner : {"none", "first", "second"}, outer : BOOLEAN]

PlainBuild == [inner |-> "none", outer |-> FALSE]

\* A plausible slip: the score is rounded to the nearest integer.
ScoreValue_Rounds(starsToday, starsThisWeek, starsThisMonth, build) ==
    (2 * (1260 * starsToday + 90 * starsThisWeek + 7 * starsThisMonth) + 2100) \div 4200

\* CalculateScores: int(dailyRate*0.6 + weeklyAvgRate*0.3 + monthlyAvgRate*0.1)
ScoreValue(starsToday, starsThisWeek, starsThisMonth, build) ==
    LET dailyRate == Float64(starsToday)
        weeklyAvgRate == Float64Div(starsThisWeek, 7)
        monthlyAvgRate == Float64Div(starsThisMonth, 30)
        p1 == ExactMul(dailyRate, Float64Div(6, 10))
        p2 == ExactMul(weeklyAvgRate, Float64Div(3, 10))
        p3 == ExactMul(monthlyAvgRate, Float64Div(1, 10))
        sum == CASE build.inner = "none" -> Rounded(ExactAdd(Rounded(p1), Rounded(p2)))
                 [] build.inner = "first" -> Rounded(ExactAdd(p1, Rounded(p2)))
                 [] OTHER -> Rounded(ExactAdd(Rounded(p1), p2))
        scoreValue == IF build.outer THEN Rounded(ExactAdd(sum, p3))
                      ELSE Rounded(ExactAdd(sum, Rounded(p3)))
    IN  TruncToInt(scoreValue)

\* The star counters direct calls of CalculateScores are made with.
TodayCounts == {0, 1, 3, 100}
WeekCounts == {0, 7, 350}
MonthCounts == {0, 30, 900}

\* ScoreValue over those counters, worked out once.
ScoreTable ==
    {<<c, ScoreValue(c[1][1], c[1][2], c[1][3], c[2])>> :
        c \in (TodayCounts \X WeekCounts \X MonthCounts) \X Builds}

\* ScoreCalculator.CalculateScores, one repo: the heats are the week's and the month's
\* stars, the score is the float64 sum cut to an integer.
ScoreOf(r, build) ==
    LET counters == <<r.StarsToday, r.StarsThisWeek, r.StarsThisMonth>>
    IN  [Owner |-> r.Owner, Name |-> r.Name,
         Heat7 |-> r.StarsThisWeek,
         Heat30 |-> r.StarsThisMonth,
         Score |-> IF \E p \in ScoreTable : p[1] = <<counters, build>>
                      THEN (CHOOSE p \in ScoreTable : p[1] = <<counters, build>>)[2]
                      ELSE ScoreValue(counters[1], counters[2], counters[3], build)]

\* ScoreCalculator.CalculateScores
CalculateScores(repos, build) == [i \in DOMAIN repos |-> ScoreOf(repos[i], build)]

\* A plausible slip: the tie-break on the score is left out.
RankedBefore_IgnoresScore(x, y) == x.Heat30 > y.Heat30

\* RankRepositories, the order: heat_30 descending, then score descending
RankedBefore(x, y) ==
    IF x.Heat30 # y.Heat30 THEN x.Heat30 > y.Heat30 ELSE x.Score > y.Score

\* A plausible slip: sort.Slice, which may put a repo in front of the ones it ties with.
RECURSIVE InsertRanked_BeforeTies(_, _)
InsertRanked_BeforeTies(x, ranked) ==
    IF ranked = <<>> THEN <<x>>
    ELSE IF ~RankedBefore(Head(ranked), x) THEN <<x>> \o ranked
    ELSE <<Head(ranked)>> \o InsertRanked_BeforeTies(x, Tail(ranked))

\* sort.SliceStable, one insertion: x goes behind everything it is not ranked before
RECURSIVE InsertRanked(_, _)
InsertRanked(x, ranked) ==
    IF ranked = <<>> THEN <<x>>
    ELSE IF RankedBefore(x, Head(ranked)) THEN <<x>> \o ranked
    ELSE <<Head(ranked)>> \o InsertRanked(x, Tail(ranked))

\* ScoreCalculator.RankRepositories: a stable sort of a copy
RECURSIVE RankRepositories(_)
RankRepositories(scoredRepos) ==
    IF scoredRepos = <<>> THEN <<>>
    ELSE InsertRanked(scoredRepos[Len(scoredRepos)],
                      RankRepositories(SubSeq(scoredRepos, 1, Len(scoredRepos) - 1)))

\* ScoreCalculator.RankAndSelectTop
RankAndSelectTop(scoredRepos, topN) ==
    LET ranked == RankRepositories(scoredRepos)
    IN  IF Len(ranked) > topN THEN SubSeq(ranked, 1, topN) ELSE ranked

\* RankAndSelectTop: ranked[:topN] is a slice expression out of range when topN < 0,
\* and the program panics.
RankAndSelectTopPanics(scoredRepos, topN) ==
    Len(RankRepositories(scoredRepos)) > topN /\ topN < 0

\* A plausible slip: the input slice is sorted in place.
InputAfterRanking_InPlace(scoredRepos) == RankRepositories(scoredRepos)

\* RankRepositories: the caller's slice after the call (the sort works on a copy)
InputAfterRanking(scoredRepos) == scoredRepos

\* A plausible slip: the repos at the threshold are left out.
identifyDarkHorses_Above(repos, threshold) ==
    LET kept == SelectSeq(repos, LAMBDA r : r.Score > threshold)
    IN  [i \in DOMAIN kept |->
            [RepoKey |-> Key(kept[i]), RepoName |-> kept[i].Name, Score |-> kept[i].Score,
             Heat30 |-> kept[i].Heat30, Heat7 |-> kept[i].Heat7,
             Category |-> kept[i].PrimaryCategory]]

\* Builder.identifyDarkHorses.  threshold: settings.DarkHorseAccelThreshold
RECURSIVE identifyDarkHorses(_, _)
identifyDarkHorses(repos, threshold) ==
    IF repos = <<>> THEN <<>>
    ELSE (IF Head(repos).Score >= threshold
          THEN <<[RepoKey |-> Key(Head(repos)), RepoName |-> Head(repos).Name,
                  Score |-> Head(repos).Score, Heat30 |-> Head(repos).Heat30,
                  Heat7 |-> Head(repos).Heat7,
                  Category |-> Head(repos).PrimaryCategory]>>
          ELSE <<>>)
         \o identifyDarkHorses(Tail(repos), threshold)

\* A plausible slip: a repo counts as a repeater from its first week on.
identifyRepeaters_FromOne(repos, history) ==
    LET kept == SelectSeq(repos, LAMBDA r : /\ Key(r) \in DOMAIN history.History
                                           /\ history.History[Key(r)].WeeksInTop >= 1)
    IN  [i \in DOMAIN kept |->
            [RepoKey |-> Key(kept[i]), RepoName |-> kept[i].Name,
             WeeksInTop |-> history.History[Key(kept[i])].WeeksInTop,
             CurrentHeat7 |-> kept[i].Heat7]]

\* Builder.identifyRepeaters: the top repos whose history entry has weeks_in_top >= 2.
\* Called with a non-nil history only (see SummaryStep).
identifyRepeaters(repos, history) ==
    LET isRepeater(r) == /\ Key(r) \in DOMAIN history.History
                         /\ history.History[Key(r)].WeeksInTop >= 2
        info(r) == [RepoKey |-> Key(r), RepoName |-> r.Name,
                    WeeksInTop |-> history.History[Key(r)].WeeksInTop,
                    CurrentHeat7 |-> r.Heat7]
        kept == SelectSeq(repos, isRepeater)
    IN  [i \in DOMAIN kept |-> info(kept[i])]

\* The warnings RunPipeline logs, and the errors it returns (the Error of a failed
\* fetch or report is the message of the error underneath, named here by its wrapper).
WarnLoad == "failed to load history, starting fresh"
WarnUpdate == "failed to update history"
WarnSave == "failed to save history"
ErrNoMatch == "no repositories matched filter criteria"
ErrFetch == "failed to fetch trending data"
ErrReport == "failed to save report"

\* No run is in progress: the program has not been started, has returned, or has died.
Quiescent == pc \in {"idle", "returned", "panicked"}

\* The lists FetchTrending gathers over the languages, before deduplication.
FetchedKeys == UNION {[1..n -> Owners \X Names] : n \in 0..MaxFetched}

\* The run is over: its locals are gone.
ClearLocals ==
    /\ reportID' = ""
    /\ runDate' = 0
    /\ classifiedRepos' = <<>>
    /\ topRepos' = <<>>
    /\ hist' = NilHistory
    /\ err' = ""
    /\ repeaters' = <<>>

Returns(success, rid, error) ==
    [Success |-> success, ReportID |-> rid, Error |-> error, returned |-> TRUE]

\* FetchTrending's repos: the scraped keys with their counters and filter verdicts
AllRepos(fetched, passing, month) ==
    [i \in DOMAIN fetched |->
        Scraped(fetched[i][1], fetched[i][2],
                month[fetched[i][1] \o "/" \o fetched[i][2]],
                (fetched[i][1] \o "/" \o fetched[i][2]) \in passing)]

\* RunPipeline, step 2: classifiedRepos of the deduplicated fetch
ClassifiedRepos(fetched, passing, month) ==
    LET classified == ClassifyEach(deduplicateRepos(AllRepos(fetched, passing, month), {}))
    IN  [i \in DOMAIN classified |-> classified[i].Metadata]

\* A plausible slip: the run goes on with nothing to score.
HardStop_Never(classified) == FALSE

\* RunPipeline, step 2: if len(classifiedRepos) == 0, return
HardStop(classified) == Len(classified) = 0

\* RunPipeline, steps 1 and 2: fetch (with deduplication) and classify.  scrapes: what
\* the trending pages may give; the empty list is the failed fetch.
StartRun(scrapes) ==
    \E rid \in ReportIDs, fetched \in scrapes, passing \in SUBSET Keys,
       month \in [Keys -> MonthStars] :
        LET allRepos == AllRepos(fetched, passing, month)
            classified == ClassifiedRepos(fetched, passing, month)
        IN  /\ Quiescent
            /\ call = NoCall
            /\ PersistedWeeksBelow(disk, CurrentRepoKeys(classified), MaxWeeks)
            /\ warnings' = {}
            /\ reportFile' = ""
            /\ IF Len(allRepos) = 0
                  THEN /\ pc' = "returned"
                       /\ result' = Returns(FALSE, "", ErrFetch)
                       /\ ClearLocals
                  ELSE /\ pc' = "classified"
                       /\ result' = NoResult
                       /\ reportID' = rid
                       /\ classifiedRepos' = classified
                       /\ UNCHANGED <<runDate, topRepos, hist, err, repeaters>>
            /\ UNCHANGED <<disk, call, observerVars>>

\* RunPipeline, the end of step 2 and step 3: stop on an empty classification, else
\* score, rank and select.
ScoreStep ==
    \E build \in Builds :
        /\ pc = "classified"
        /\ IF HardStop(classifiedRepos)
              THEN /\ pc' = "returned"
                   /\ result' = Returns(FALSE, "", ErrNoMatch)
                   /\ ClearLocals
              ELSE /\ pc' = "load"
                   /\ topRepos' =
                          RankAndSelectTop(CalculateScores(classifiedRepos, build), TopN)
                   /\ classifiedRepos' = <<>>
                   /\ UNCHANGED <<reportID, runDate, hist, err, repeaters, result>>
        /\ UNCHANGED <<disk, warnings, reportFile, call, observerVars>>

\* RunPipeline, step 4: runDate and historyManager.LoadHistory()
LoadStep ==
    \E date \in Dates :
        LET r == LoadHistory(disk)
        IN  /\ pc = "load"
            /\ pc' = "update"
            /\ runDate' = date
            /\ disk' = r.disk
            /\ err' = r.err
            /\ hist' = IF r.err # "" THEN NewHistory ELSE r.hist
            /\ warnings' = IF r.err # "" THEN warnings \cup {WarnLoad} ELSE warnings
            /\ UNCHANGED <<reportID, topRepos, classifiedRepos, repeaters, result, reportFile, call,
                           observerVars>>

\* RunPipeline, step 4: hist, err = historyManager.UpdateHistory(topRepos, reportID, runDate)
UpdateStep ==
    LET r == UpdateHistory(disk, topRepos, reportID, runDate)
    IN  /\ pc = "update"
        /\ pc' = "save"
        /\ disk' = r.disk
        /\ hist' = r.hist
        /\ err' = r.err
        /\ warnings' = IF r.err # "" THEN warnings \cup {WarnUpdate} ELSE warnings
        /\ UNCHANGED <<reportID, runDate, topRepos, classifiedRepos, repeaters, result, reportFile, call,
                       observerVars>>

\* RunPipeline, step 4: historyManager.SaveHistory(hist); the program dies when
\* SaveHistory panics.  observed: the observers follow
\* the runs (they do where nothing but the runs touches the file).
SaveStep(observed) ==
    LET r == SaveHistory(disk, hist)
        top == CurrentRepoKeys(topRepos)
        saved == observed /\ r.err = "" /\ WarnUpdate \notin warnings
    IN  /\ pc = "save"
        /\ disk' = r.disk
        /\ IF r.panics
              THEN /\ pc' = "panicked"
                   /\ ClearLocals
              ELSE /\ pc' = "summary"
                   /\ err' = r.err
                   /\ UNCHANGED <<reportID, runDate, topRepos, classifiedRepos, hist, repeaters>>
        /\ warnings' = IF r.err # "" THEN warnings \cup {WarnSave} ELSE warnings
        /\ streak' = IF saved
                        THEN [k \in Keys |-> IF k \in top THEN streak[k] + 1 ELSE 0]
                        ELSE streak
        /\ dropped' = IF saved
                         THEN [k \in Keys |-> IF k \notin top /\ streak[k] > 0
                                                 THEN streak[k]
                                              ELSE IF k \in top /\ streak[k] > 0
                                                 THEN 0
                                              ELSE dropped[k]]
                         ELSE dropped
        /\ lastRun' = IF saved THEN [rid |-> reportID, date |-> runDate] ELSE lastRun
        /\ monotone' = IF saved THEN monotone /\ lastRun.date <= runDate ELSE monotone
        /\ UNCHANGED <<result, reportFile, call, given, runs, llm>>

\* A plausible slip: the summary is built from the history as the run loaded it, before
\* UpdateHistory (every top repo's counter one lower, a new repo without an entry).
SummaryStep_BeforeUpdate ==
    LET top == CurrentRepoKeys(topRepos)
        loaded == [hist EXCEPT !.History =
                      [k \in {x \in DOMAIN hist.History :
                                 x \notin top \/ hist.History[x].WeeksInTop > 1} |->
                          IF k \in top
                          THEN [hist.History[k] EXCEPT !.WeeksInTop = @ - 1]
                          ELSE hist.History[k]]]
    IN  /\ pc = "summary"
        /\ IF hist.nil /\ topRepos # <<>>
              THEN /\ pc' = "panicked"
                   /\ ClearLocals
              ELSE /\ pc' = "report"
                   /\ repeaters' = identifyRepeaters(topRepos, loaded)
                   /\ UNCHANGED <<reportID, runDate, topRepos, classifiedRepos, hist, err>>
        /\ UNCHANGED <<disk, warnings, result, reportFile, call, observerVars>>

\* RunPipeline, step 5: summaryBuilder.BuildSummary(topRepos, hist, runDate).
\* identifyRepeaters reads history.History for every top repo: with a nil hist that is
\* a nil pointer dereference, and the program dies.
SummaryStep ==
    /\ pc = "summary"
    /\ IF hist.nil /\ topRepos # <<>>
          THEN /\ pc' = "panicked"
               /\ ClearLocals
          ELSE /\ pc' = "report"
               /\ repeaters' = identifyRepeaters(topRepos, hist)
               /\ UNCHANGED <<reportID, runDate, topRepos, classifiedRepos, hist, err>>
    /\ UNCHANGED <<disk, warnings, result, reportFile, call, observerVars>>

\* RunPipeline, steps 6 to 8 and the return: the LLM call or its template fallback,
\* GenerateReport, SaveReport, the summary backup.  reportOK: SaveReport succeeds.
ReportStep(reportOK) ==
    /\ pc = "report"
    /\ pc' = "returned"
    /\ reportFile' = IF reportOK THEN reportID ELSE ""
    /\ result' = IF reportOK THEN Returns(TRUE, reportID, "")
                 ELSE Returns(FALSE, "", ErrReport)
    /\ ClearLocals
    /\ UNCHANGED <<disk, warnings, call, observerVars>>

\* Between two runs something else damages, replaces, removes or protects the file.
Tamper ==
    /\ Quiescent
    /\ call = NoCall
    /\ disk' \in HandFiles \ {disk}
    /\ UNCHANGED <<pc, reportID, runDate, topRepos, classifiedRepos, hist, err, warnings, repeaters,
                   result, reportFile, call, observerVars>>

\* The program runs again and again over a history file only it touches, on a machine
\* where the scrape and the file system work.
Init == disk = AbsentFile /\ InitLocals

Next ==
    \/ StartRun(FetchedKeys \ {<<>>})
    \/ ScoreStep
    \/ LoadStep
    \/ UpdateStep
    \/ SaveStep(TRUE)
    \/ SummaryStep
    \/ ReportStep(TRUE)

Spec == Init /\ [][Next]_vars

\* The same with faults: the scrape or the report may fail, and the history file may be
\* damaged or protected between runs.
NextFaults ==
    \/ StartRun(FetchedKeys)
    \/ ScoreStep
    \/ LoadStep
    \/ UpdateStep
    \/ SaveStep(FALSE)
    \/ SummaryStep
    \/ \E reportOK \in BOOLEAN : ReportStep(reportOK)
    \/ Tamper

SpecFaults == Init /\ [][NextFaults]_vars

(***************************************************************************)
(* Properties of the direct calls (checked under SpecAPI).                 *)
(***************************************************************************)
\* This step is the return of an UpdateHistory call / a LoadHistory call.
UpdateReturns == call' # call /\ call'.op = "UpdateHistory"

LoadReturns == call' # call /\ call'.op = "LoadHistory"

PersistedEmpty(d) == d.kind = "absent" \/ (PersistedOK(d) /\ DOMAIN Persisted(d) = {})

TopKeys(top) == {top[i].Owner \o "/" \o top[i].Name : i \in DOMAIN top}

DistinctKeys(top) ==
    \A i, j \in DOMAIN top :
        i # j => top[i].Owner \o "/" \o top[i].Name # top[j].Owner \o "/" \o top[j].Name

\* C1: a key tracked with weeks_in_top = n and present in a currentTop of pairwise
\* distinct keys has, in the history UpdateHistory returns, weeks_in_top = n + 1, its
\* first_seen_report and first_seen_date unchanged, and last_seen_report and
\* last_seen_date equal to the call's reportID and reportDate.
C1_StreakIncrement ==
    [][(UpdateReturns /\ PersistedOK(disk) /\ DistinctKeys(call'.top)) =>
          \A k \in DOMAIN Persisted(disk) \cap TopKeys(call'.top) :
              /\ err' = ""
              /\ k \in DOMAIN hist'.History
              /\ hist'.History[k].WeeksInTop = Persisted(disk)[k].WeeksInTop + 1
              /\ hist'.History[k].FirstSeenReport = Persisted(disk)[k].FirstSeenReport
              /\ hist'.History[k].FirstSeenDate = Persisted(disk)[k].FirstSeenDate
              /\ hist'.History[k].LastSeenReport = call'.rid
              /\ hist'.History[k].LastSeenDate = call'.date]_vars

\* An UpdateHistory call over distinct keys has returned a key that went from 1 week to 2
\* and whose first-seen report and date are not the call's.
C1_Witness ==
    /\ call.op = "UpdateHistory"
    /\ err = ""
    /\ DistinctKeys(call.top)
    /\ PersistedOK(disk)
    /\ \E k \in DOMAIN Persisted(disk) \cap TopKeys(call.top) :
           /\ Persisted(disk)[k].WeeksInTop = 1
           /\ hist.History[k].WeeksInTop = 2
           /\ hist.History[k].FirstSeenReport # call.rid
           /\ hist.History[k].FirstSeenDate # call.date

\* Every entry is a first appearance in the call's run.
AllFresh(h, rid, date) ==
    \A k \in DOMAIN h.History :
        /\ h.History[k].WeeksInTop = 1
        /\ h.History[k].FirstSeenReport = rid
        /\ h.History[k].FirstSeenDate = date
        /\ h.History[k].LastSeenReport = rid
        /\ h.History[k].LastSeenDate = date

\* C2 as stated: over an empty or absent persisted history, UpdateHistory with ANY top
\* list of size k returns exactly k entries, each with weeks_in_top = 1 and first-seen
\* equal to last-seen equal to the call's reportID and reportDate.
C2_AnyTopList ==
    [][(UpdateReturns /\ PersistedEmpty(disk)) =>
          /\ err' = ""
          /\ Cardinality(DOMAIN hist'.History) = Len(call'.top)
          /\ AllFresh(hist', call'.rid, call'.date)]_vars

\* C2 amended: over an empty or absent persisted history, UpdateHistory with a top list
\* of k pairwise distinct keys returns exactly k entries, each with weeks_in_top = 1 and
\* first-seen equal to last-seen equal to the call's reportID and reportDate.
C2_DistinctTopList ==
    [][(UpdateReturns /\ PersistedEmpty(disk) /\ DistinctKeys(call'.top)) =>
          /\ err' = ""
          /\ Cardinality(DOMAIN hist'.History) = Len(call'.top)
          /\ AllFresh(hist', call'.rid, call'.date)]_vars

\* UpdateHistory over no file has returned two entries for a top list of two keys.
C2_Witness ==
    /\ call.op = "UpdateHistory"
    /\ err = ""
    /\ disk.kind = "absent"
    /\ DistinctKeys(call.top)
    /\ Len(call.top) = 2
    /\ Cardinality(DOMAIN hist.History) = 2

\* C3: the keys of the history UpdateHistory returns are exactly the keys of
\* currentTop: a tracked key absent from currentTop is gone, an empty currentTop leaves
\* no entry, and no other key remains.
C3_KeysAreTopKeys ==
    [][(UpdateReturns /\ err' = "") => DOMAIN hist'.History = TopKeys(call'.top)]_vars

\* UpdateHistory has returned without a key the file tracks.
C3_Witness ==
    /\ call.op = "UpdateHistory"
    /\ err = ""
    /\ PersistedOK(disk)
    /\ \E k \in DOMAIN Persisted(disk) : k \notin DOMAIN hist.History

\* C7: over a file that exists but cannot be read or parsed, LoadHistory returns an
\* error and no History, and UpdateHistory returns that same error and no History;
\* neither returns an empty History.
C7_CorruptIsError ==
    [][((LoadReturns \/ UpdateReturns) /\ disk.kind # "absent"
            /\ (~disk.readable \/ disk.kind = "garbage")) =>
          /\ hist'.nil
          /\ err' = (IF disk.readable THEN ErrParse ELSE ErrRead)]_vars

\* UpdateHistory has returned the parse error over a malformed file.
C7_Witness ==
    /\ call.op = "UpdateHistory"
    /\ disk.kind = "garbage"
    /\ disk.readable
    /\ err = ErrParse
    /\ hist.nil

\* C8: with no history file, LoadHistory returns no error and a History with an empty,
\* non-nil map and an empty latest_report, and there is still no file afterwards.
C8_AbsentIsEmpty ==
    [][(LoadReturns /\ disk.kind = "absent") =>
          /\ err' = ""
          /\ ~hist'.nil
          /\ ~hist'.mapNil
          /\ DOMAIN hist'.History = {}
          /\ hist'.LatestReport = ""
          /\ disk' = disk]_vars

\* LoadHistory has returned over no file.
C8_Witness ==
    /\ call.op = "LoadHistory"
    /\ disk.kind = "absent"
    /\ err = ""
    /\ ~hist.nil

(***************************************************************************)
(* Properties of successive runs of the program (checked under Spec), and  *)
(* of runs over a damaged history file (checked under SpecFaults).         *)
(* The observers: streak[k] is the number of most recent consecutive saved *)
(* runs whose top list held k, dropped[k] the length of the streak k lost  *)
(* when it last left the top list (0 once it is on a streak of two again), *)
(* lastRun the report and the date of the last saved run, and monotone     *)
(* says that no saved run carried an earlier date than the one before it.  *)
(***************************************************************************)
\* The keys the file tracks.
Tracks(d) == IF PersistedOK(d) THEN DOMAIN Persisted(d) ELSE {}

RunningPCs == {"classified", "load", "update", "save", "summary", "report"}

\* C4: a key that leaves the top list has its entry removed by that run, and when it
\* reappears in a later run it gets weeks_in_top = 1 and first-seen fields of the run
\* in which it reappeared: nothing of the earlier streak is resumed.
C4_StreakResets ==
    \A k \in Keys :
        /\ (dropped[k] > 0 /\ streak[k] = 0) => k \notin Tracks(disk)
        /\ (dropped[k] > 0 /\ streak[k] = 1) =>
              /\ k \in Tracks(disk)
              /\ Persisted(disk)[k].WeeksInTop = 1
              /\ Persisted(disk)[k].FirstSeenReport = lastRun.rid
              /\ Persisted(disk)[k].FirstSeenDate = lastRun.date

\* A key that lost a streak of two runs is back, on a later date than it was first seen.
C4_Witness ==
    \E k \in Keys :
        /\ dropped[k] = 2
        /\ streak[k] = 1
        /\ k \in Tracks(disk)
        /\ Persisted(disk)[k].FirstSeenDate = 2

\* C5: over runs that start from no history and each update and save it, the file
\* tracks exactly the keys of the last run's top list, a tracked key's weeks_in_top is
\* the number of most recent consecutive runs whose top list held it, and from one
\* state of the file to the next a key's counter stays, goes from n to n+1, or the
\* entry disappears.
C5_WeeksIsStreak ==
    [][/\ \A k \in Keys :
             /\ k \in Tracks(disk') <=> streak'[k] > 0
             /\ k \in Tracks(disk') => Persisted(disk')[k].WeeksInTop = streak'[k]
       /\ \A k \in Tracks(disk) \cap Tracks(disk') :
             \/ Persisted(disk')[k].WeeksInTop = Persisted(disk)[k].WeeksInTop
             \/ Persisted(disk')[k].WeeksInTop = Persisted(disk)[k].WeeksInTop + 1]_vars

\* One key is on a streak of two runs while the other has just lost its own.
C5_Witness ==
    \E k, j \in Keys :
        /\ streak[k] = 2
        /\ Persisted(disk)[k].WeeksInTop = 2
        /\ dropped[j] > 0
        /\ j \notin Tracks(disk)

\* Every entry of a history has first_seen_date <= last_seen_date.
DatesOrdered(m) == \A k \in DOMAIN m : m[k].FirstSeenDate <= m[k].LastSeenDate

AllDatesOrdered ==
    /\ PersistedOK(disk) => DatesOrdered(Persisted(disk))
    /\ ~hist.nil => DatesOrdered(hist.History)

\* C6 as stated: every entry, in the file and in memory, has first_seen_date <=
\* last_seen_date in every reachable state, whatever dates the runs were given.
C6_FirstSeenNotAfterLastSeen == AllDatesOrdered

\* C6, amended: every entry, in the file and in memory, has first_seen_date <=
\* last_seen_date as long as no run has been given an earlier date than the run
\* before it.
C6_OrderedWhenDatesAscend ==
    (monotone /\ (runDate = 0 \/ lastRun.date <= runDate)) => AllDatesOrdered

\* Dates never went back, and an entry was first seen strictly before it was last seen.
C6_Witness ==
    /\ monotone
    /\ \E k \in Tracks(disk) :
          Persisted(disk)[k].FirstSeenDate < Persisted(disk)[k].LastSeenDate

\* C9: a run in which loading, updating or saving the history failed (and whose report
\* could be written) still completes: it returns Success = true with its report saved.
C9_HistoryFailureIsNotFatal ==
    (/\ Quiescent
     /\ warnings \cap {WarnLoad, WarnUpdate, WarnSave} # {}
     /\ result.Error # ErrReport)
        => /\ pc = "returned"
           /\ result.Success
           /\ result.ReportID # ""
           /\ reportFile = result.ReportID

\* C10: no step of a run changes the contents of a history file that holds
\* malformed JSON.
C10_MalformedFileIsKept ==
    [][(pc \in RunningPCs /\ disk.kind = "garbage") => Contents(disk') = Contents(disk)]_vars

(***************************************************************************)
(* Properties of the round trip (checked under SpecRoundTrip).             *)
(***************************************************************************)
\* Same latest_report, same key set, identical field values for every entry.
SameHistory(a, b) ==
    /\ a.LatestReport = b.LatestReport
    /\ DOMAIN a.History = DOMAIN b.History
    /\ \A k \in DOMAIN a.History : a.History[k] = b.History[k]

\* Every string of the History is valid UTF-8.
ValidStrings(h) ==
    /\ h.LatestReport # InvalidUTF8
    /\ \A k \in DOMAIN h.History :
          /\ h.History[k].LastSeenReport # InvalidUTF8
          /\ h.History[k].FirstSeenReport # InvalidUTF8

LoadedBack == call.op = "LoadHistory" /\ ~given.nil

\* C11 as stated: for every History, with any strings, SaveHistory followed by
\* LoadHistory returns no error and a History with the same latest_report, the same
\* key set and identical field values for every entry.
C11_RoundTripAnyStrings ==
    LoadedBack => (err = "" /\ ~hist.nil /\ SameHistory(given, hist))

\* C11, amended: for every History whose strings are all valid UTF-8, SaveHistory
\* followed by LoadHistory returns no error and a History with the same latest_report,
\* the same key set and identical field values for every entry.
C11_RoundTripValidStrings ==
    (LoadedBack /\ ValidStrings(given)) =>
        (err = "" /\ ~hist.nil /\ SameHistory(given, hist))

\* A History with two entries that differ in every field has been saved and loaded back.
C11_Witness ==
    /\ LoadedBack
    /\ ValidStrings(given)
    /\ DOMAIN given.History = Keys
    /\ given.LatestReport # ""
    /\ \E k, j \in Keys :
          /\ given.History[k].WeeksInTop = MaxWeeks
          /\ given.History[j].WeeksInTop = 0
          /\ given.History[k].FirstSeenReport # given.History[k].LastSeenReport
          /\ given.History[k].FirstSeenDate # given.History[k].LastSeenDate
    /\ SameHistory(given, hist)

(***************************************************************************)
(* Properties of a crash in SaveHistory (checked under SpecCrash).         *)
(***************************************************************************)
\* C12: whenever no save is in progress - in particular after a crash at any point
\* of SaveHistory - the history file is absent or holds a complete history, and so
\* LoadHistory never returns an error.
C12_CrashLeavesWholeFile ==
    /\ pc = "idle" => disk.kind \in {"absent", "null", "object"}
    /\ call.op = "LoadHistory" => err = ""

(***************************************************************************)
(* Properties of the steps before the history (checked under Spec).        *)
(***************************************************************************)
\* C13: a run whose classification yields an empty list stops there with
\* Success = false and the error "no repositories matched filter criteria", before
\* scoring: the history file is left as it was and nothing is loaded from it, and no
\* report is written.
C13_EmptyClassificationStops ==
    [][(pc = "classified" /\ classifiedRepos = <<>>)
          => /\ pc' = "returned"
             /\ result' = Returns(FALSE, "", ErrNoMatch)
             /\ disk' = disk
             /\ hist'.nil
             /\ topRepos' = <<>>
             /\ reportFile' = ""]_vars

\* A run has stopped on an empty classification over a history that tracks a key.
C13_Witness ==
    /\ pc = "returned"
    /\ result.Error = ErrNoMatch
    /\ ~result.Success
    /\ reportFile = ""
    /\ Tracks(disk) # {}

(***************************************************************************)
(* Direct calls on a ScoreCalculator, one per behaviour.                   *)
(***************************************************************************)
\* The ClassifiedRepos CalculateScores is called with: any counters.
CountedRepos ==
    {[Owner |-> "o1", Name |-> "r1", StarsToday |-> t, StarsThisWeek |-> w,
      StarsThisMonth |-> m] :
        t \in TodayCounts, w \in WeekCounts, m \in MonthCounts}

CountedLists == UNION {[1..n -> CountedRepos] : n \in 0..2}

\* The ScoredRepos the ranking is called with: any heat and score, ties included.
RankedInputs ==
    [Owner : Owners, Name : Names, Heat7 : {0}, Heat30 : {10, 20}, Score : {0, 1}]

ScoredLists == UNION {[1..n -> RankedInputs] : n \in 0..MaxRanked}

\* The topN arguments: negative, zero, below, at and above the length of the input.
TopNs == (0 - 1)..(MaxRanked + 1)

\* calc.CalculateScores(repos)
CallCalculateScores ==
    /\ pc = "idle"
    /\ call = NoCall
    /\ \E repos \in CountedLists, build \in Builds :
           /\ call' = [op |-> "CalculateScores", repos |-> repos, build |-> build,
                       ret |-> CalculateScores(repos, build)]
           /\ UNCHANGED <<disk, hist, err, pipelineVars, observerVars>>

\* calc.RankRepositories(scoredRepos)
CallRankRepositories ==
    /\ pc = "idle"
    /\ call = NoCall
    /\ \E scoredRepos \in ScoredLists :
           /\ call' = [op |-> "RankRepositories", scoredRepos |-> scoredRepos,
                       inputAfter |-> InputAfterRanking(scoredRepos),
                       ret |-> RankRepositories(scoredRepos)]
           /\ UNCHANGED <<disk, hist, err, pipelineVars, observerVars>>

\* calc.RankAndSelectTop(scoredRepos, topN)
CallRankAndSelectTop ==
    /\ pc = "idle"
    /\ call = NoCall
    /\ \E scoredRepos \in ScoredLists, topN \in TopNs :
           /\ call' = [op |-> "RankAndSelectTop", scoredRepos |-> scoredRepos,
                       topN |-> topN,
                       inputAfter |-> InputAfterRanking(scoredRepos),
                       panics |-> RankAndSelectTopPanics(scoredRepos, topN),
                       ret |-> IF RankAndSelectTopPanics(scoredRepos, topN) THEN <<>>
                               ELSE RankAndSelectTop(scoredRepos, topN)]
           /\ UNCHANGED <<disk, hist, err, pipelineVars, observerVars>>

NextCalc == CallCalculateScores \/ CallRankRepositories \/ CallRankAndSelectTop

SpecCalc == InitAPI /\ [][NextCalc]_vars

(***************************************************************************)
(* Properties of the score calculator (checked under SpecCalc).            *)
(***************************************************************************)
Min(a, b) == IF a < b THEN a ELSE b

\* Sorted non-increasing by (Heat30, Score): no repo is ranked before one in front of it.
SortedByRank(repos) ==
    \A i, j \in DOMAIN repos :
        i < j => \/ repos[i].Heat30 > repos[j].Heat30
                 \/ repos[i].Heat30 = repos[j].Heat30 /\ repos[i].Score >= repos[j].Score

SelectionIsRight ==
    /\ ~call.panics
    /\ Len(call.ret) = Min(call.topN, Len(call.scoredRepos))
    /\ SortedByRank(call.ret)

\* C14 as stated: for every input and every topN, RankAndSelectTop returns (without
\* an error) a sequence of length min(topN, input length) sorted non-increasing by
\* (Heat30, Score).
C14_SelectsForAnyTopN == call.op = "RankAndSelectTop" => SelectionIsRight

\* C14, amended: for every input and every topN >= 0, RankAndSelectTop returns
\* (without an error) a sequence of length min(topN, input length) sorted
\* non-increasing by (Heat30, Score).
C14_SelectsForNaturalTopN ==
    (call.op = "RankAndSelectTop" /\ call.topN >= 0) => SelectionIsRight

\* A list of three repos in three different ranks, given out of order, has been cut
\* to its top two.
C14_Witness ==
    /\ call.op = "RankAndSelectTop"
    /\ Len(call.scoredRepos) = 3
    /\ call.topN = 2
    /\ Len(call.ret) = 2
    /\ call.ret[1] = call.scoredRepos[3]
    /\ call.ret[2] = call.scoredRepos[1]
    /\ call.ret[1].Heat30 > call.ret[2].Heat30
    /\ call.scoredRepos[1].Heat30 = call.scoredRepos[2].Heat30
    /\ call.scoredRepos[1].Score > call.scoredRepos[2].Score

\* The repos of one rank, in the order they have in a list.
OfRank(repos, heat30, score) ==
    SelectSeq(repos, LAMBDA r : r.Heat30 = heat30 /\ r.Score = score)

IsPrefix(a, b) == Len(a) <= Len(b) /\ a = SubSeq(b, 1, Len(a))

\* C15: the repos with equal (Heat30, Score) come out of RankRepositories and of
\* RankAndSelectTop in the order they went in, RankRepositories returns as many repos
\* as it was given, and the caller's slice is as it was.
C15_RankingIsStable ==
    (call.op \in {"RankRepositories", "RankAndSelectTop"} /\ call.ret # <<>>) =>
        /\ \A r \in RankedInputs :
              IsPrefix(OfRank(call.ret, r.Heat30, r.Score),
                       OfRank(call.scoredRepos, r.Heat30, r.Score))
        /\ call.op = "RankRepositories" => Len(call.ret) = Len(call.scoredRepos)
        /\ call.inputAfter = call.scoredRepos

\* Two different repos that tie, given behind a repo of a lower rank, have come out in
\* front of it in their input order.
C15_Witness ==
    /\ call.op = "RankRepositories"
    /\ Len(call.scoredRepos) = 3
    /\ call.scoredRepos[2].Heat30 = call.scoredRepos[3].Heat30
    /\ call.scoredRepos[2].Score = call.scoredRepos[3].Score
    /\ call.scoredRepos[2] # call.scoredRepos[3]
    /\ call.scoredRepos[1].Heat30 < call.scoredRepos[2].Heat30
    /\ call.ret = <<call.scoredRepos[2], call.scoredRepos[3], call.scoredRepos[1]>>

\* The numerator of the exact score over 2100.
ExactNumerator(r) == 1260 * r.StarsToday + 90 * r.StarsThisWeek + 7 * r.StarsThisMonth

\* C16 as stated: every Score is floor((1260*today + 90*week + 7*month) / 2100).
C16_ScoreIsExactFloor ==
    call.op = "CalculateScores" =>
        \A i \in DOMAIN call.repos :
            call.ret[i].Score = ExactNumerator(call.repos[i]) \div 2100

\* What the float64 sum does give: a Score never above the exact value of the
\* formula, equal to its floor when that value is not an integer and to the value or
\* one less when it is; and 78 for (today, week, month) = (100, 350, 900).
ScoreWithinOneOfFloor ==
    call.op = "CalculateScores" =>
        \A i \in DOMAIN call.repos :
            LET n == ExactNumerator(call.repos[i])
                score == call.ret[i].Score
            IN  /\ score <= n \div 2100
                /\ score >= (n \div 2100) - 1
                /\ score >= 0
                /\ n % 2100 # 0 => score = n \div 2100
                /\ (/\ call.repos[i].StarsToday = 100
                    /\ call.repos[i].StarsThisWeek = 350
                    /\ call.repos[i].StarsThisMonth = 900) => score = 78

(***************************************************************************)
(* Direct calls on a Classifier, one per behaviour.                        *)
(***************************************************************************)
\* The texts matchesKeyword is called with are made of these pieces, put one after
\* the other with nothing in between.
Pieces == {"ai", "AI", "llm", "tutorial", "agent", "s", "-", " ", "."}

PieceLists == UNION {[1..n -> Pieces] : n \in 0..MaxPieces}

\* The characters of a text given by its pieces.
TextOf(pieces) == Join([i \in DOMAIN pieces |-> Chars(pieces[i])], <<>>)

\* The keywords of the direct calls: short and long, in capitals, with a hyphen.
GivenKeywords == {"ai", "AI", "llm", "tutorial", "agent", "ai-agent"}

\* The repositories Classify is called with (name, description, topics).
GivenRepo(name, description, topics) ==
    [Name |-> name, Description |-> description, Topics |-> topics]

GivenRepos ==
    {GivenRepo("ai-tutorial", "", <<>>),
     GivenRepo("ai-project", "An AI tutorial.", <<>>),
     GivenRepo("llm-project", "", <<"ai">>),
     GivenRepo("rag", "agent llm", <<"ai">>),
     GivenRepo("rag", "llm gpt agent", <<"ai">>),
     GivenRepo("web-app", "", <<>>)}

RepoLists == UNION {[1..n -> GivenRepos] : n \in 0..MaxRepos}

\* The categories of the keyword configurations, and the configurations.
GivenCategories ==
    [categoryName \in {"agent", "llm"} |->
        IF categoryName = "agent" THEN <<"agent", "autonomous">> ELSE <<"llm", "gpt">>]

GivenConfigs ==
    {[Include |-> <<"ai">>, Exclude |-> <<"tutorial">>, Categories |-> GivenCategories],
     [Include |-> <<"llm", "ai">>, Exclude |-> <<>>, Categories |-> GivenCategories]}

\* c.matchesKeyword(text, keyword)
CallMatchesKeyword ==
    /\ pc = "idle"
    /\ call = NoCall
    /\ \E pieces \in PieceLists, keyword \in GivenKeywords :
           /\ call' = [op |-> "matchesKeyword", text |-> pieces, keyword |-> keyword,
                       ret |-> matchesKeyword(TextOf(pieces), Chars(keyword))]
           /\ UNCHANGED <<disk, hist, err, pipelineVars, observerVars>>

\* classifier.New(keywords).Classify(repos).  declared: the order of the categories
\* in keywords.json, which the map it is decoded into does not keep.
CallClassify ==
    /\ pc = "idle"
    /\ call = NoCall
    /\ \E repos \in RepoLists, keywords \in GivenConfigs,
          declared \in RangeOrders(DOMAIN GivenCategories) :
           \E orders \in [DOMAIN repos -> RangeOrders(DOMAIN keywords.Categories)] :
               /\ call' = [op |-> "Classify", repos |-> repos, keywords |-> keywords,
                           declared |-> declared,
                           ret |-> Classify(repos, keywords, orders)]
               /\ UNCHANGED <<disk, hist, err, pipelineVars, observerVars>>

NextClassifier == CallMatchesKeyword \/ CallClassify

SpecClassifier == InitAPI /\ [][NextClassifier]_vars

(***************************************************************************)
(* Properties of the classifier (checked under SpecClassifier).            *)
(***************************************************************************)
\* The rule of the keyword match, stated on positions of the lowercased text: a word
\* is a run of characters from i to j without white space that white space or an end
\* of the text bounds on both sides.
IsWord(text, i, j) ==
    /\ i <= j
    /\ \A k \in i..j : ~IsSpace(text[k])
    /\ i = 1 \/ IsSpace(text[i - 1])
    /\ j = Len(text) \/ IsSpace(text[j + 1])

\* The word without the punctuation around it: from its first to its last character
\* that is not punctuation; nothing if it has none.
Trimmed(word) ==
    LET kept == {k \in DOMAIN word : word[k] \notin Punctuation}
    IN  IF kept = {} THEN <<>>
        ELSE SubSeq(word, CHOOSE k \in kept : \A l \in kept : k <= l,
                          CHOOSE k \in kept : \A l \in kept : k >= l)

KeywordRule(text, keyword) ==
    LET kw == ToLower(keyword)
        lower == ToLower(text)
    IN  IF \E k \in DOMAIN kw : kw[k] = "-"
        THEN \E i \in 1..(Len(lower) + 1) :
                /\ i + Len(kw) - 1 <= Len(lower)
                /\ \A k \in DOMAIN kw : lower[i + k - 1] = kw[k]
        ELSE \E i, j \in DOMAIN lower :
                /\ IsWord(lower, i, j)
                /\ LET word == Trimmed(SubSeq(lower, i, j))
                   IN  \/ word = kw
                       \/ word = kw \o <<"s">>
                       \/ /\ Len(kw) >= 4
                          /\ Len(word) >= Len(kw)
                          /\ \A k \in DOMAIN kw : word[k] = kw[k]

\* The repos that pass the filter by that rule.
Passes(repo, keywords) ==
    /\ \E i \in DOMAIN keywords.Include :
          KeywordRule(buildSearchText(repo), Chars(keywords.Include[i]))
    /\ ~\E i \in DOMAIN keywords.Exclude :
          KeywordRule(buildSearchText(repo), Chars(keywords.Exclude[i]))

\* C17: Classify returns exactly the input repos that match at least one include
\* keyword and no exclude keyword, each once and in their input order (a repo that
\* matches both is dropped), and returns without an error whatever it drops.
C17_ClassifyKeepsThePassing ==
    call.op = "Classify" =>
        [i \in DOMAIN call.ret |-> call.ret[i].Metadata]
            = SelectSeq(call.repos, LAMBDA repo : Passes(repo, call.keywords))

\* Of a repo that matches include and exclude, a repo that matches include only and a
\* repo that matches neither, given in that order twice over, Classify has kept the
\* second.
C17_Witness ==
    /\ call.op = "Classify"
    /\ call.keywords.Exclude = <<"tutorial">>
    /\ Len(call.repos) = 2
    /\ call.repos[1] = GivenRepo("ai-project", "An AI tutorial.", <<>>)
    /\ matchesInclude(call.repos[1], call.keywords)
    /\ matchesExclude(call.repos[1], call.keywords)
    /\ call.repos[2] = GivenRepo("llm-project", "", <<"ai">>)
    /\ Len(call.ret) = 1
    /\ call.ret[1].Metadata = call.repos[2]

\* The categories of a configuration that have a keyword matching the repo.
Assigned(repo, keywords) ==
    {categoryName \in DOMAIN keywords.Categories :
        MatchesOf(repo, keywords, categoryName) > 0}

\* The assigned categories with the most matching keywords.
MostMatching(repo, keywords) ==
    {categoryName \in Assigned(repo, keywords) :
        \A other \in Assigned(repo, keywords) :
            MatchesOf(repo, keywords, categoryName) >= MatchesOf(repo, keywords, other)}

\* C18: the PrimaryCategory of a classified repo is, of its assigned categories with
\* the most matching keywords, the one declared first in the configuration, and the
\* empty string when no category is assigned.
C18_PrimaryIsFirstDeclaredOfTheMost ==
    call.op = "Classify" =>
        \A i \in DOMAIN call.ret :
            LET repo == call.ret[i].Metadata
                most == MostMatching(repo, call.keywords)
            IN  IF Assigned(repo, call.keywords) = {}
                THEN call.ret[i].PrimaryCategory = ""
                ELSE \E k \in DOMAIN call.declared :
                        /\ call.declared[k] = call.ret[i].PrimaryCategory
                        /\ call.declared[k] \in most
                        /\ \A l \in 1..(k - 1) : call.declared[l] \notin most

\* What does hold of the PrimaryCategory: it is one of the assigned categories with
\* the most matching keywords, and the empty string when no category is assigned.
PrimaryIsOneOfTheMost ==
    call.op = "Classify" =>
        \A i \in DOMAIN call.ret :
            LET repo == call.ret[i].Metadata
            IN  IF Assigned(repo, call.keywords) = {}
                THEN call.ret[i].PrimaryCategory = "" /\ call.ret[i].Categories = <<>>
                ELSE call.ret[i].PrimaryCategory \in MostMatching(repo, call.keywords)

\* The keyword is one of the parts of the text that hyphens, white space or the ends
\* of the text bound.
IsHyphenComponent(text, keyword) ==
    \E i, j \in DOMAIN text :
        /\ SubSeq(text, i, j) = keyword
        /\ i = 1 \/ text[i - 1] = "-" \/ IsSpace(text[i - 1])
        /\ j = Len(text) \/ text[j + 1] = "-" \/ IsSpace(text[j + 1])

\* C19: a keyword without a hyphen matches a text of which it is a hyphen-separated
\* component: "ai" and "tutorial" match "ai-tutorial", "llm" matches "llm-tutorial".
C19_MatchesHyphenComponents ==
    (/\ call.op = "matchesKeyword"
     /\ ~Contains(Chars(call.keyword), <<"-">>)
     /\ IsHyphenComponent(ToLower(TextOf(call.text)), ToLower(Chars(call.keyword))))
        => call.ret

IncludeHits(repo, keywords) ==
    {i \in DOMAIN keywords.Include :
        KeywordRule(buildSearchText(repo), Chars(keywords.Include[i]))}

CategoryHits(repo, keywords) ==
    {hit \in UNION {{<<categoryName, i>> : i \in DOMAIN keywords.Categories[categoryName]} :
                      categoryName \in DOMAIN keywords.Categories} :
        KeywordRule(buildSearchText(repo), Chars(keywords.Categories[hit[1]][hit[2]]))}

\* C21: the MatchScore of a classified repo is the number of include keywords that
\* match plus the number of matching keywords of every category list, a keyword that
\* is in the include list and in a category list counting once in each; the exclude
\* keywords do not count.
C21_MatchScoreCountsEveryList ==
    call.op = "Classify" =>
        \A i \in DOMAIN call.ret :
            call.ret[i].MatchScore
                = Cardinality(IncludeHits(call.ret[i].Metadata, call.keywords))
                  + Cardinality(CategoryHits(call.ret[i].Metadata, call.keywords))

\* A repo that matches "llm" of the include list and "llm" of a category list, with
\* two more category keywords and one more include keyword, has scored 5.
C21_Witness ==
    /\ call.op = "Classify"
    /\ call.keywords.Include = <<"llm", "ai">>
    /\ Len(call.ret) >= 1
    /\ call.ret[1].Metadata = GivenRepo("rag", "llm gpt agent", <<"ai">>)
    /\ call.ret[1].MatchScore = 5

(***************************************************************************)
(* Direct calls on a summary Builder, one per behaviour.                   *)
(***************************************************************************)
\* The ranked top repos the Builder is called with: any order, a key more than once.
BuilderRepos ==
    [Owner : Owners, Name : Names, Heat7 : {5}, Heat30 : {10}, Score : {0, 2, 3},
     PrimaryCategory : {"", "llm"}]

BuilderRepoLists == UNION {[1..n -> BuilderRepos] : n \in 0..MaxTopLen}

\* The histories the Builder is called with: a nil pointer, a nil map, and entries for
\* some keys with any counter from 1 to one more than the longest streak.
WeeksEntry(weeks) ==
    [WeeksInTop |-> weeks, LastSeenReport |-> "w2", LastSeenDate |-> 2,
     FirstSeenReport |-> "w1", FirstSeenDate |-> 1]

BuilderHistories ==
    {NilHistory, [ZeroHistory EXCEPT !.LatestReport = "w2"]}
    \cup {[nil |-> FALSE, LatestReport |-> "w2", mapNil |-> FALSE,
           History |-> [k \in ks |-> WeeksEntry(weeks[k])]] :
              ks \in SUBSET Keys, weeks \in [Keys -> 1..(MaxWeeks + 1)]}

\* The values of settings.DarkHorseAccelThreshold: below, at and above the scores.
Thresholds == {0, 2, 4}

\* b.identifyRepeaters(repos, history); with a nil history and a repo to look up it
\* panics on history.History.
CallIdentifyRepeaters ==
    /\ pc = "idle"
    /\ call = NoCall
    /\ \E repos \in BuilderRepoLists, history \in BuilderHistories :
           /\ call' = [op |-> "identifyRepeaters", repos |-> repos, history |-> history,
                       panics |-> history.nil /\ repos # <<>>,
                       ret |-> IF history.nil THEN <<>>
                               ELSE identifyRepeaters(repos, history)]
           /\ UNCHANGED <<disk, hist, err, pipelineVars, observerVars>>

\* b.identifyDarkHorses(repos)
CallIdentifyDarkHorses ==
    /\ pc = "idle"
    /\ call = NoCall
    /\ \E repos \in BuilderRepoLists, threshold \in Thresholds :
           /\ call' = [op |-> "identifyDarkHorses", repos |-> repos,
                       threshold |-> threshold,
                       ret |-> identifyDarkHorses(repos, threshold)]
           /\ UNCHANGED <<disk, hist, err, pipelineVars, observerVars>>

NextBuilder == CallIdentifyRepeaters \/ CallIdentifyDarkHorses

SpecBuilder == InitAPI /\ [][NextBuilder]_vars

(***************************************************************************)
(* Properties of the summary Builder (checked under SpecBuilder).          *)
(***************************************************************************)
\* The places of a list of repos that a test picks, in order.
PlacesWhere(repos, Test(_)) ==
    SelectSeq([i \in DOMAIN repos |-> i], LAMBDA i : Test(repos[i]))

\* C22: identifyRepeaters returns, in ranked order, exactly the top repos whose key
\* has a history entry with weeks_in_top >= 2, each with that entry's weeks_in_top; a
\* repo whose key has no entry, or an entry with weeks_in_top = 1, is not returned.
C22_RepeatersHaveTwoWeeks ==
    (call.op = "identifyRepeaters" /\ ~call.history.nil) =>
        LET entries == call.history.History
            IsRepeater(r) == Key(r) \in DOMAIN entries /\ entries[Key(r)].WeeksInTop >= 2
            places == PlacesWhere(call.repos, IsRepeater)
        IN  /\ ~call.panics
            /\ Len(call.ret) = Len(places)
            /\ \A i \in DOMAIN places :
                  /\ call.ret[i].RepoKey = Key(call.repos[places[i]])
                  /\ call.ret[i].WeeksInTop = entries[call.ret[i].RepoKey].WeeksInTop
                  /\ call.ret[i].CurrentHeat7 = call.repos[places[i]].Heat7
            /\ \A i \in DOMAIN call.ret :
                  /\ call.ret[i].RepoKey \in DOMAIN entries
                  /\ call.ret[i].WeeksInTop >= 2

\* Of two top repos, the first in its first week and the second in its third, the
\* second alone has been returned; and so has it, with an absent first.
C22_Witness ==
    /\ call.op = "identifyRepeaters"
    /\ Len(call.repos) = 2
    /\ Key(call.repos[1]) = "o1/r1"
    /\ Key(call.repos[2]) = "o2/r1"
    /\ "o1/r1" \in DOMAIN call.history.History
    /\ call.history.History["o1/r1"].WeeksInTop = 1
    /\ "o2/r1" \in DOMAIN call.history.History
    /\ call.history.History["o2/r1"].WeeksInTop = 3
    /\ Len(call.ret) = 1
    /\ call.ret[1].RepoKey = "o2/r1"
    /\ call.ret[1].WeeksInTop = 3

RepeaterKeys == {repeaters[i].RepoKey : i \in DOMAIN repeaters}

\* C23: once the summary of a run is built, a repo is listed as a repeater exactly if
\* it is in the top list of this run and was in the top list of the run before it
\* (its streak of consecutive runs, this one included, is 2 or more).
C23_RepeatersWereInThePreviousTop ==
    pc = "report" =>
        RepeaterKeys = {k \in CurrentRepoKeys(topRepos) : streak[k] >= 2}

\* The summary of a run with two top repos, one also in the top of the run before and
\* one not, lists the first alone.
C23_Witness ==
    /\ pc = "report"
    /\ CurrentRepoKeys(topRepos) = {"o1/r1", "o2/r1"}
    /\ streak["o1/r1"] = 2
    /\ streak["o2/r1"] = 1
    /\ RepeaterKeys = {"o1/r1"}

(***************************************************************************)
(* UpdateHistory called twice (checked under SpecTwice: the direct calls   *)
(* on a Manager, and a second UpdateHistory with the arguments of the      *)
(* first and no SaveHistory in between).                                   *)
(***************************************************************************)
\* manager.UpdateHistory(currentTop, reportID, reportDate), once more
CallUpdateHistoryAgain ==
    LET r == UpdateHistory(disk, call.top, call.rid, call.date)
    IN  /\ pc = "idle"
        /\ call.op = "UpdateHistory"
        /\ call' = [call EXCEPT !.op = "UpdateHistoryAgain"]
        /\ hist' = r.hist
        /\ err' = r.err
        /\ disk' = r.disk
        /\ UNCHANGED <<pipelineVars, observerVars>>

NextTwice == NextAPI \/ CallUpdateHistoryAgain

SpecTwice == InitAPI /\ [][NextTwice]_vars

\* C25: an UpdateHistory call leaves the history file as it was, and a second call
\* with the same arguments and no SaveHistory in between returns the same history and
\* the same error as the first.
C25_UpdateHistoryDoesNotWrite ==
    [][/\ call'.op = "UpdateHistory" => disk' = disk
       /\ call'.op = "UpdateHistoryAgain" =>
             disk' = disk /\ hist' = hist /\ err' = err]_vars

\* A second update of a persisted entry has returned its counter raised once, to 2,
\* with 1 still in the file.
C25_Witness ==
    /\ call.op = "UpdateHistoryAgain"
    /\ err = ""
    /\ "o1/r1" \in DOMAIN hist.History
    /\ hist.History["o1/r1"].WeeksInTop = 2
    /\ PersistedOK(disk)
    /\ "o1/r1" \in DOMAIN Persisted(disk)
    /\ Persisted(disk)["o1/r1"].WeeksInTop = 1

(***************************************************************************)
(* Two runs of the program at the same time on one history file.  Each is  *)
(* step 4 of RunPipeline: LoadHistory, UpdateHistory, SaveHistory; nothing *)
(* in the program keeps the steps of one run from falling between the      *)
(* steps of the other.  A read sees a whole file and a write replaces it   *)
(* whole (the kindest case: see SpecCrash for a write cut short).          *)
(***************************************************************************)
\* The files the two runs start on: none, or the saved history of an earlier run.
StartFiles ==
    {AbsentFile}
    \cup {Marshal([nil |-> FALSE, LatestReport |-> "w1", mapNil |-> FALSE,
                   History |-> [k \in ks |-> InitialEntry("w1", 1)]]) : ks \in SUBSET Keys}

\* The top lists of a run: the keys are distinct.
RunTopLists ==
    {top \in TopLists : \A i, j \in DOMAIN top : i # j => Key(top[i]) # Key(top[j])}

\* A run about to enter step 4 with its top list and report ID.
StartingRun(top, rid) ==
    [pc |-> "load", top |-> top, rid |-> rid, date |-> 2, hist |-> NilHistory, err |-> ""]

InitConcurrent ==
    /\ disk \in StartFiles
    /\ runs \in {[start |-> disk, run |-> <<StartingRun(top1, rid1), StartingRun(top2, rid2)>>] :
                    top1 \in RunTopLists, top2 \in RunTopLists,
                    rid1 \in ReportIDs, rid2 \in ReportIDs}
    /\ hist = NilHistory
    /\ pc = "idle"
    /\ reportID = ""
    /\ runDate = 0
    /\ classifiedRepos = <<>>
    /\ topRepos = <<>>
    /\ err = ""
    /\ warnings = {}
    /\ repeaters = <<>>
    /\ result = NoResult
    /\ reportFile = ""
    /\ call = NoCall
    /\ streak = [k \in Keys |-> 0]
    /\ dropped = [k \in Keys |-> 0]
    /\ lastRun = [rid |-> "", date |-> 0]
    /\ monotone = TRUE
    /\ given = NilHistory
    /\ llm = NoLLM

sequentialVars ==
    <<pc, reportID, runDate, classifiedRepos, topRepos, hist, err, warnings, repeaters,
      result, reportFile, call, streak, dropped, lastRun, monotone, given, llm>>

\* Run p: hist, err := historyManager.LoadHistory()
LoadOf(p) ==
    LET r == LoadHistory(disk)
    IN  /\ runs.run[p].pc = "load"
        /\ runs' = [runs EXCEPT !.run[p].pc = "update",
                                !.run[p].hist = IF r.err # "" THEN NewHistory ELSE r.hist,
                                !.run[p].err = r.err]
        /\ disk' = r.disk
        /\ UNCHANGED sequentialVars

\* Run p: hist, err = historyManager.UpdateHistory(topRepos, reportID, runDate)
UpdateOf(p) ==
    LET r == UpdateHistory(disk, runs.run[p].top, runs.run[p].rid, runs.run[p].date)
    IN  /\ runs.run[p].pc = "update"
        /\ runs' = [runs EXCEPT !.run[p].pc = "save",
                                !.run[p].hist = r.hist,
                                !.run[p].err = r.err]
        /\ disk' = r.disk
        /\ UNCHANGED sequentialVars

\* Run p: historyManager.SaveHistory(hist)
SaveOf(p) ==
    LET r == SaveHistory(disk, runs.run[p].hist)
    IN  /\ runs.run[p].pc = "save"
        /\ runs' = [runs EXCEPT !.run[p].pc = IF r.panics THEN "panicked" ELSE "saved",
                                !.run[p].err = r.err]
        /\ disk' = r.disk
        /\ UNCHANGED sequentialVars

NextConcurrent == \E p \in DOMAIN runs.run : LoadOf(p) \/ UpdateOf(p) \/ SaveOf(p)

SpecConcurrent == InitConcurrent /\ [][NextConcurrent]_vars

\* The file after a run has gone through step 4 alone on the file d.
AfterAlone(d, run) ==
    SaveHistory(d, UpdateHistory(d, run.top, run.rid, run.date).hist).disk

APIErrors == {"failed to execute request", "API returned non-200 status"}

Responses == {"valid", "not JSON", "missing intro"}

\* Step 6 about to start with a configuration and an environment.
StartingLLM(maxRetries, apiKey) ==
    [pc |-> "step6", MaxRetries |-> maxRetries, apiKey |-> apiKey, attempt |-> 0,
     outcomes |-> <<>>, slept |-> <<>>, response |-> "", output |-> ""]

InitLLM ==
    /\ disk = AbsentFile
    /\ hist = NilHistory
    /\ llm \in {StartingLLM(maxRetries, apiKey) :
                  maxRetries \in 0..RetriesBound, apiKey \in BOOLEAN}
    /\ runs = NoRuns
    /\ pc = "idle"
    /\ reportID = ""
    /\ runDate = 0
    /\ classifiedRepos = <<>>
    /\ topRepos = <<>>
    /\ err = ""
    /\ warnings = {}
    /\ repeaters = <<>>
    /\ result = NoResult
    /\ reportFile = ""
    /\ call = NoCall
    /\ streak = [k \in Keys |-> 0]
    /\ dropped = [k \in Keys |-> 0]
    /\ lastRun = [rid |-> "", date |-> 0]
    /\ monotone = TRUE
    /\ given = NilHistory

notLLMVars ==
    <<disk, pc, reportID, runDate, classifiedRepos, topRepos, hist, err, warnings,
      repeaters, result, reportFile, call, streak, dropped, lastRun, monotone, given, runs>>

\* RunPipeline, step 6: without LLM_API_KEY the template fallback, else GenerateAnalysis
CheckAPIKey ==
    /\ llm.pc = "step6"
    /\ llm' = IF llm.apiKey THEN [llm EXCEPT !.pc = "loop"]
              ELSE [llm EXCEPT !.pc = "step7", !.output = "template"]
    /\ UNCHANGED notLLMVars

\* A plausible slip: the last retry is not made.
Exhausted_Early(attempt, maxRetries) == attempt >= maxRetries /\ attempt > 0

\* callAPIWithRetry, the loop condition attempt <= c.config.MaxRetries, negated
Exhausted(attempt, maxRetries) == attempt > maxRetries

\* callAPIWithRetry: time.Duration(math.Pow(2, float64(attempt))) * time.Second, in seconds
BackoffSeconds(attempt) == 2 ^ attempt

\* callAPIWithRetry, the head of the loop: leave when the attempts are used up, sleep
\* before a retry, then call.
LoopHead ==
    /\ llm.pc = "loop"
    /\ llm' = IF Exhausted(llm.attempt, llm.MaxRetries)
                 THEN [llm EXCEPT !.pc = "fallback"]
              ELSE IF llm.attempt > 0
                 THEN [llm EXCEPT !.pc = "call",
                                  !.slept = Append(@, BackoffSeconds(llm.attempt))]
              ELSE [llm EXCEPT !.pc = "call"]
    /\ UNCHANGED notLLMVars

\* callAPIWithRetry: response, err := c.callAPI(prompt); return on err == nil
CallAPI ==
    /\ llm.pc = "call"
    /\ \/ \E response \in Responses :
             llm' = [llm EXCEPT !.pc = "parse", !.outcomes = Append(@, "ok"),
                                !.response = response]
       \/ \E lastErr \in APIErrors :
             llm' = [llm EXCEPT !.pc = "loop", !.outcomes = Append(@, lastErr),
                                !.attempt = @ + 1]
    /\ UNCHANGED notLLMVars

\* GenerateAnalysis: c.parseResponse(responseText)
ParseResponse ==
    /\ llm.pc = "parse"
    /\ llm' = IF llm.response = "valid"
                 THEN [llm EXCEPT !.pc = "step7", !.output = "llm"]
              ELSE [llm EXCEPT !.pc = "fallback"]
    /\ UNCHANGED notLLMVars

\* RunPipeline, step 6: GenerateAnalysis returned an error; llm.GenerateTemplateFallback
TemplateFallback ==
    /\ llm.pc = "fallback"
    /\ llm' = [llm EXCEPT !.pc = "step7", !.output = "template"]
    /\ UNCHANGED notLLMVars

NextLLM == CheckAPIKey \/ LoopHead \/ CallAPI \/ ParseResponse \/ TemplateFallback

SpecLLM == InitLLM /\ [][NextLLM]_vars

\* The program keeps running: a step that can be taken is taken.
SpecLLMFair == SpecLLM /\ WF_vars(NextLLM)

\* The attempts so far: at most MaxRetries + 1, none after a success, and before the
\* retry number i a sleep of 2^i seconds (2, then twice the one before).
AttemptsAreBounded ==
    llm.pc # "none" =>
        /\ Len(llm.outcomes) <= llm.MaxRetries + 1
        /\ \A i \in DOMAIN llm.outcomes : llm.outcomes[i] = "ok" => i = Len(llm.outcomes)
        /\ llm.pc \in {"parse", "fallback", "step7"} /\ llm.outcomes # <<>> =>
              Len(llm.slept) = Len(llm.outcomes) - 1
        /\ \A i \in DOMAIN llm.slept :
              llm.slept[i] = IF i = 1 THEN 2 ELSE 2 * llm.slept[i - 1]

\* Step 7 is reached with the LLM's output when there is a key, a call succeeded and
\* its response parsed, and with the template's output otherwise: after MaxRetries + 1
\* failed calls, after a response that does not parse, or without a key and a call.
FallbackIsUsed ==
    llm.pc = "step7" =>
        LET succeeded == llm.outcomes # <<>> /\ llm.outcomes[Len(llm.outcomes)] = "ok"
        IN  /\ llm.output = IF llm.apiKey /\ succeeded /\ llm.response = "valid"
                            THEN "llm" ELSE "template"
            /\ ~llm.apiKey => llm.outcomes = <<>>
            /\ (llm.apiKey /\ ~succeeded) => Len(llm.outcomes) = llm.MaxRetries + 1

\* C27: the LLM step makes at most MaxRetries + 1 API attempts, stops at the first
\* success, sleeps 2^attempt seconds before each retry, and always comes to an end;
\* when every attempt fails, the response does not parse or no API key is set, the run
\* goes on to the report with the template fallback.
C27_LLMStepEndsWithAnOutput ==
    /\ [](AttemptsAreBounded /\ FallbackIsUsed)
    /\ <>(llm.pc = "step7")

\* Every attempt a configuration with three retries allows has failed, after sleeps of
\* 2, 4 and 8 seconds, and the run has gone on with the template's output.
C27_Witness ==
    /\ llm.pc = "step7"
    /\ llm.MaxRetries = 3
    /\ Len(llm.outcomes) = 4
    /\ \A i \in DOMAIN llm.outcomes : llm.outcomes[i] # "ok"
    /\ llm.slept = <<2, 4, 8>>
    /\ llm.output = "template"

(***************************************************************************)
(* The list a run hands to UpdateHistory (checked under SpecFaults).       *)
(***************************************************************************)
\* This step is step 4's call of UpdateHistory with the run's top list.
UpdateStepTaken == pc = "update" /\ pc' = "save"

\* C28: the list a run passes to UpdateHistory has pairwise distinct repo keys, so in
\* the history the call returns no key's weeks_in_top is more than 1 above the
\* persisted one, and a key the file does not track has weeks_in_top = 1.
C28_RunUpdatesWithDistinctKeys ==
    [][UpdateStepTaken =>
          /\ \A i, j \in DOMAIN topRepos : i # j => Key(topRepos[i]) # Key(topRepos[j])
          /\ ~hist'.nil =>
                \A k \in DOMAIN hist'.History :
                    IF PersistedOK(disk) /\ k \in DOMAIN Persisted(disk)
                    THEN hist'.History[k].WeeksInTop <= Persisted(disk)[k].WeeksInTop + 1
                    ELSE hist'.History[k].WeeksInTop = 1]_vars

\* A run has updated the history with a top list of two repos: one the file tracked
\* with weeks_in_top = 1, now at 2, and one the file did not track, now at 1.
C28_Witness ==
    /\ pc = "save"
    /\ Len(topRepos) = 2
    /\ ~hist.nil
    /\ PersistedOK(disk)
    /\ \E k1, k2 \in CurrentRepoKeys(topRepos) :
          /\ k1 \in DOMAIN Persisted(disk)
          /\ Persisted(disk)[k1].WeeksInTop = 1
          /\ hist.History[k1].WeeksInTop = 2
          /\ k2 \notin DOMAIN Persisted(disk)
          /\ hist.History[k2].WeeksInTop = 1

(***************************************************************************)
(* The history and the report of one run, and a run under a report ID the  *)
(* file already holds (checked under SpecFaults).                          *)
(***************************************************************************)
\* Step 4 of the run under way updated and saved the history without a warning.
HistorySaved == WarnUpdate \notin warnings /\ WarnSave \notin warnings

\* The file holds the history of the run under way, every top repo stamped with the
\* run's report ID.
FileHoldsTheRun ==
    /\ PersistedOK(disk)
    /\ Unmarshal(disk).history.LatestReport = reportID
    /\ DOMAIN Persisted(disk) = CurrentRepoKeys(topRepos)
    /\ \A k \in DOMAIN Persisted(disk) :
          /\ Persisted(disk)[k] = hist.History[k]
          /\ Persisted(disk)[k].LastSeenReport = reportID
          /\ Persisted(disk)[k].WeeksInTop >= 1

\* C29: the updated history is in the file before the report is generated and saved,
\* and a failing report leaves it there; UpdateHistory under a report ID equal to the
\* file's latest_report still adds 1 to weeks_in_top of every top key the file tracks.
C29_HistoryIsSavedBeforeTheReport ==
    [][/\ (pc = "report" /\ pc' = "returned") =>
             /\ disk' = disk
             /\ HistorySaved => FileHoldsTheRun
       /\ (UpdateStepTaken /\ PersistedOK(disk)
             /\ Unmarshal(disk).history.LatestReport = reportID) =>
             /\ ~hist'.nil
             /\ \A k \in CurrentRepoKeys(topRepos) \cap DOMAIN Persisted(disk) :
                   hist'.History[k].WeeksInTop = Persisted(disk)[k].WeeksInTop + 1]_vars

\* A run has failed at saving its report, and the file holds a key that the run counted
\* a second time under the report ID that first counted it.
C29_Witness ==
    /\ pc = "returned"
    /\ result.Error = ErrReport
    /\ PersistedOK(disk)
    /\ \E k \in DOMAIN Persisted(disk) :
          /\ Persisted(disk)[k].WeeksInTop = 2
          /\ Persisted(disk)[k].FirstSeenReport = Persisted(disk)[k].LastSeenReport
          /\ Persisted(disk)[k].LastSeenReport = Unmarshal(disk).history.LatestReport

(***************************************************************************)
(* The new repos of a run's summary.  Times are wall-clock hours.  The     *)
(* fetcher stamps a repo when it merges the pages of the repo's language;  *)
(* the summary is built later in the same run, less than a day after the   *)
(* first stamp.                                                            *)
(***************************************************************************)
\* new_repo_threshold_days as settings.json may give it (0: absent).
ConfiguredDays == {-1, 0, 1, 2}

\* The hours at which mergeRepos stamps the repos of a language, and at which
\* identifyNewRepos reads the clock.
StampHours == {0, 1}

SummaryHours == {1, 12, 23}

\* A plausible slip: an absent threshold stays 0.
applySettingsDefaults_None(days) == days

\* applySettingsDefaults, NewRepoThresholdDays
applySettingsDefaults(days) == IF days = 0 THEN 90 ELSE days

\* Config.Validate, the error about NewRepoThresholdDays
Validate(days) ==
    IF days < 0 THEN {"new_repo_threshold_days cannot be negative"} ELSE {}

\* mergeRepos: CreatedAt: time.Now()
StampedRepos == [Owner : Owners, Name : Names, CreatedAt : StampHours]

StampedLists == UNION {[1..n -> StampedRepos] : n \in 0..MaxTopLen}

\* Builder.identifyNewRepos, the loop: the keys of the repos created after thresholdDate
RECURSIVE NewRepoKeys(_, _)
NewRepoKeys(repos, thresholdDate) ==
    IF repos = <<>> THEN <<>>
    ELSE (IF Head(repos).CreatedAt > thresholdDate THEN <<Key(Head(repos))>> ELSE <<>>)
         \o NewRepoKeys(Tail(repos), thresholdDate)

\* Builder.identifyNewRepos; now.AddDate(0, 0, -days) is 24 hours a day earlier
identifyNewRepos(repos, now, thresholdDays) ==
    LET newRepos == NewRepoKeys(repos, now - 24 * thresholdDays)
    IN  [Count |-> Len(newRepos), ThresholdDays |-> thresholdDays, Repos |-> newRepos]

\* config.Load and cfg.Validate() in main
CallLoad ==
    /\ pc = "idle"
    /\ call = NoCall
    /\ \E days \in ConfiguredDays :
           call' = [op |-> "Load",
                    NewRepoThresholdDays |-> applySettingsDefaults(days),
                    errors |-> Validate(applySettingsDefaults(days))]
    /\ UNCHANGED <<disk, hist, err, pipelineVars, observerVars>>

\* RunPipeline, step 5 with the repos of step 1: b.identifyNewRepos(topRepos).  main
\* has left when the configuration had errors.
CallIdentifyNewRepos ==
    /\ pc = "idle"
    /\ call.op = "Load"
    /\ call.errors = {}
    /\ \E repos \in StampedLists, now \in SummaryHours :
           call' = [op |-> "identifyNewRepos", repos |-> repos, now |-> now,
                    ret |-> identifyNewRepos(repos, now, call.NewRepoThresholdDays)]
    /\ UNCHANGED <<disk, hist, err, pipelineVars, observerVars>>

NextNewRepos == CallLoad \/ CallIdentifyNewRepos

SpecNewRepos == InitAPI /\ [][NextNewRepos]_vars

\* C30: the summary's new-repos list holds every top repo of the run, in order, and
\* its Count is their number: each was stamped with the scrape time, which is after the
\* summary's clock minus the threshold, the threshold being 1 day or more.
C30_EveryTopRepoIsNew ==
    call.op = "identifyNewRepos" =>
        /\ call.ret.ThresholdDays >= 1
        /\ call.ret.Count = Len(call.repos)
        /\ call.ret.Repos = [i \in DOMAIN call.repos |-> Key(call.repos[i])]

\* With a threshold of one day, a repo stamped 23 hours before the summary and another
\* stamped an hour later are both listed as new.
C30_Witness ==
    /\ call.op = "identifyNewRepos"
    /\ call.ret.ThresholdDays = 1
    /\ Len(call.repos) = 2
    /\ call.now - call.repos[1].CreatedAt = 23
    /\ call.now - call.repos[2].CreatedAt = 22
    /\ call.ret.Count = 2

====
